---- MODULE Spec2Model ----
(***************************************************************************)
(* Field data capture application: the aggregation view (Analytics), the   *)
(* listing view (DataList) and the entry form (CaptureForm), together with *)
(* the record store and object storage they call.                          *)
(*                                                                         *)
(* Conventions.  A JavaScript string on which the code works character by  *)
(* character (titles, locations, numeric fields, the search term, the time *)
(* range) is a sequence of one-character strings, so that Number, parseInt, *)
(* toLowerCase and includes are computed rather than assumed.  Enumerated   *)
(* strings that the code only compares (status, water quality) are plain   *)
(* strings.  Time is counted in hours since 2023-01-01T00:00 local time;   *)
(* the code's millisecond arithmetic is exact at that resolution for the   *)
(* instants the model draws.  A JavaScript number is an integer or, for a  *)
(* quotient, an exact fraction; binary rounding is not modelled.           *)
(***************************************************************************)
EXTENDS Integers, Sequences, FiniteSets, TLC

VARIABLES
    db,             \* the store's rows of the user, in select order (created_at descending)
    bucket,         \* object storage: names of the uploaded objects, in upload order
    now,            \* wall clock (Date.now()), in hours
    nextId,         \* next server-assigned record identifier
    timeRange,      \* Analytics: selected window
    analyticsData,  \* Analytics: last computed result, or Null
    analyticsLoading, \* Analytics: loading flag
    aFetches,       \* Analytics: fetches in flight
    aIssued,        \* Analytics: number of fetches issued so far
    aLast,          \* Analytics: what analyticsData was computed from (rows, window, instant)
    aDone,          \* Analytics: the fetches that have ended, in the order they ended
    captures,       \* DataList: in-memory fetched records
    listLoading,    \* DataList: loading flag
    searchTerm,     \* DataList: search filter
    statusFilter,   \* DataList: status filter
    selectedCapture,\* DataList: record shown in the detail view, or Null
    lReqs,          \* DataList: fetches and deletes in flight
    lIssued,        \* DataList: number of requests issued so far
    lCalls,         \* DataList: log of the confirmations asked and the calls issued to the store
    formData,       \* CaptureForm: field values and attached photos
    formLoading,    \* CaptureForm: loading flag
    error,          \* CaptureForm: displayed error message, or Null
    success,        \* CaptureForm: confirmation flag
    submits,        \* CaptureForm: the handleSubmit calls in flight, each with its position
                    \* and whether the form instance that started it is still mounted
    calls,          \* CaptureForm: log of the calls issued to storage and store
    submitted,      \* CaptureForm: number of submissions started
    currentView,    \* Dashboard: the active view
    timers,         \* Dashboard: pending setTimeout callbacks that call onBack
    session         \* HomePage: what useSupabase() returns, the loading flag and the user

vars == <<db, bucket, now, nextId,
          timeRange, analyticsData, analyticsLoading, aFetches, aIssued, aLast, aDone,
          captures, listLoading, searchTerm, statusFilter, selectedCapture, lReqs, lIssued, lCalls,
          formData, formLoading, error, success, submits, calls, submitted,
          currentView, timers, session>>

dashVars == <<currentView, timers, session>>
storeVars == <<db, bucket, now, nextId>>
analyticsVars == <<timeRange, analyticsData, analyticsLoading, aFetches, aIssued, aLast, aDone>>
listVars == <<captures, listLoading, searchTerm, statusFilter, selectedCapture, lReqs, lIssued,
             lCalls>>
formVars == <<formData, formLoading, error, success, submits, calls, submitted>>

\* null for the record-valued state (analyticsData, selectedCapture)
\* and for the string-valued state (error)
Null == [null |-> TRUE]
NullMessage == "null"

(***************************************************************************)
(* Bounds.                                                                 *)
(***************************************************************************)
MaxRecs == 3        \* longest store content drawn for status, numeric and window inputs
MaxLocRecs == 7     \* longest store content drawn for location inputs
MaxTicks == 1       \* clock steps after the initial instant
MaxFetches == 3     \* fetches the aggregation view issues
MaxPhotos == 2      \* photos attached to the form
MaxSubmits == 1     \* submissions started in the form
MaxListReqs == 3    \* requests the listing view has issued when it is activated again
MaxConfirms == 2    \* confirm() dialogs the listing view shows
MaxPhotoEvents == 3 \* file selections and photo removals made in the form

(***************************************************************************)
(* Generic helpers.                                                        *)
(***************************************************************************)
RECURSIVE SeqSum(_)
SeqSum(s) == IF s = <<>> THEN 0 ELSE Head(s) + SeqSum(Tail(s))

RECURSIVE GCD(_, _)
GCD(a, b) == IF b = 0 THEN a ELSE GCD(b, a % b)

Digits == {"0", "1", "2", "3", "4", "5", "6", "7", "8", "9"}

DigitVal(c) ==
    CASE c = "0" -> 0 [] c = "1" -> 1 [] c = "2" -> 2 [] c = "3" -> 3 [] c = "4" -> 4
      [] c = "5" -> 5 [] c = "6" -> 6 [] c = "7" -> 7 [] c = "8" -> 8 [] c = "9" -> 9

IsSpace(c) == c = " "

RECURSIVE TrimLeft(_)
TrimLeft(s) == IF s # <<>> /\ IsSpace(Head(s)) THEN TrimLeft(Tail(s)) ELSE s

RECURSIVE TrimRight(_)
TrimRight(s) ==
    IF s # <<>> /\ IsSpace(s[Len(s)]) THEN TrimRight(SubSeq(s, 1, Len(s) - 1)) ELSE s

RECURSIVE DecimalValue(_)
DecimalValue(s) ==
    IF s = <<>> THEN 0 ELSE 10 * DecimalValue(SubSeq(s, 1, Len(s) - 1)) + DigitVal(s[Len(s)])

AllDigits(s) == \A i \in 1..Len(s) : s[i] \in Digits

\* A JavaScript number that may be NaN.
NaN == [nan |-> TRUE, val |-> 0]
Num(n) == [nan |-> FALSE, val |-> n]
isNaN(x) == x.nan

\* Number(string): surrounding white space is dropped, the empty string is 0,
\* a digit string is its decimal value, anything else is NaN.  (Signs,
\* fractions, exponents and radix prefixes are outside the alphabet drawn.)
Number(s) ==
    LET t == TrimRight(TrimLeft(s))
    IN  IF t = <<>> THEN Num(0)
        ELSE IF AllDigits(t) THEN Num(DecimalValue(t))
        ELSE NaN

\* parseInt(string): leading white space is dropped, then the longest digit
\* prefix is read; NaN when that prefix is empty.
RECURSIVE DigitPrefix(_)
DigitPrefix(s) ==
    IF s # <<>> /\ Head(s) \in Digits THEN <<Head(s)>> \o DigitPrefix(Tail(s)) ELSE <<>>

parseInt(s) ==
    LET p == DigitPrefix(TrimLeft(s))
    IN  IF p = <<>> THEN NaN ELSE Num(DecimalValue(p))

\* String truthiness: only the empty string is falsy.
Truthy(s) == s # <<>>

\* A quotient a / b (b > 0) as an exact fraction in lowest terms.
Quotient(a, b) == LET g == GCD(a, b) IN [num |-> a \div g, den |-> b \div g]
Zero == [num |-> 0, den |-> 1]

(***************************************************************************)
(* JavaScript objects used as maps: a sequence of <<key, value>> entries   *)
(* in insertion order.  (Array.prototype.filter is SelectSeq throughout.)  *)
(***************************************************************************)
HasKey(obj, k) == \E i \in 1..Len(obj) : obj[i][1] = k

\* Variant: an existing key is reset to 1 instead of incremented.
Increment_Reset(obj, k) ==
    IF HasKey(obj, k)
    THEN [i \in 1..Len(obj) |-> IF obj[i][1] = k THEN <<k, 1>> ELSE obj[i]]
    ELSE Append(obj, <<k, 1>>)

\* obj[k] = (obj[k] || 0) + 1
Increment(obj, k) ==
    IF HasKey(obj, k)
    THEN [i \in 1..Len(obj) |-> IF obj[i][1] = k THEN <<k, obj[i][2] + 1>> ELSE obj[i]]
    ELSE Append(obj, <<k, 1>>)

\* Object.values, in insertion order (all keys counted here are non-index keys
\* or the order is immaterial to the reader of the values).
ObjectValues(obj) == [i \in 1..Len(obj) |-> obj[i][2]]

\* A key that is a canonical array index ("0", "7", "42"): OrdinaryOwnPropertyKeys
\* lists these first, in ascending numeric order, before the other string keys.
IsIndexKey(k) ==
    /\ Len(k) >= 1
    /\ AllDigits(k)
    /\ (Len(k) = 1 \/ k[1] # "0")

RECURSIVE SortIndexEntries(_)
SortIndexEntries(es) ==
    IF es = <<>> THEN <<>>
    ELSE LET m == CHOOSE i \in 1..Len(es) :
                    \A j \in 1..Len(es) : DecimalValue(es[i][1]) <= DecimalValue(es[j][1])
         IN  <<es[m]>> \o SortIndexEntries(SubSeq(es, 1, m - 1) \o SubSeq(es, m + 1, Len(es)))

\* Variant: every key is listed in insertion order.
ObjectEntries_InsertionOrder(obj) == obj

\* Object.entries of an object whose keys are character sequences.
ObjectEntries(obj) ==
    LET IsIdx(e) == IsIndexKey(e[1])
        NotIdx(e) == ~IsIndexKey(e[1])
    IN  SortIndexEntries(SelectSeq(obj, IsIdx)) \o SelectSeq(obj, NotIdx)

(***************************************************************************)
(* Calendar: the month-and-year label of an instant.                       *)
(***************************************************************************)
HoursPerDay == 24

IsLeap(y) == (y % 4 = 0 /\ y % 100 # 0) \/ y % 400 = 0
DaysInMonth(m, y) ==
    IF m = 2 THEN (IF IsLeap(y) THEN 29 ELSE 28)
    ELSE IF m \in {4, 6, 9, 11} THEN 30 ELSE 31

MonthNames == <<"Jan", "Feb", "Mar", "Apr", "May", "Jun",
                "Jul", "Aug", "Sep", "Oct", "Nov", "Dec">>

RECURSIVE YearMonthOfDay(_, _, _)
YearMonthOfDay(d, m, y) ==
    IF d < DaysInMonth(m, y) THEN <<m, y>>
    ELSE IF m = 12 THEN YearMonthOfDay(d - DaysInMonth(m, y), 1, y + 1)
    ELSE YearMonthOfDay(d - DaysInMonth(m, y), m + 1, y)

\* Variant: the label is formatted with { month: 'short' } only.
MonthLabel_NoYear(t) ==
    LET ym == YearMonthOfDay(t \div HoursPerDay, 1, 2023)
    IN  <<MonthNames[ym[1]]>>

\* new Date(created_at).toLocaleDateString('en-US', {month: 'short', year: 'numeric'})
MonthLabel(t) ==
    LET ym == YearMonthOfDay(t \div HoursPerDay, 1, 2023)
    IN  <<MonthNames[ym[1]], ym[2]>>

(***************************************************************************)
(* Analytics.fetchAnalytics: the aggregation of the fetched records.       *)
(***************************************************************************)
TopN == 5

\* forEach(c => obj[key] = (obj[key] || 0) + 1) over the keys in iteration order
RECURSIVE CountKeys(_)
CountKeys(ks) ==
    IF ks = <<>> THEN <<>>
    ELSE Increment(CountKeys(SubSeq(ks, 1, Len(ks) - 1)), ks[Len(ks)])

\* Variant: the comparison daysAgo < parseInt(timeRange).
InWindow_Strict(c, tr, t) ==
    LET n == parseInt(tr)
    IN  /\ ~isNaN(n)
        /\ (t - c.created_at) < n.val * HoursPerDay

\* daysAgo <= parseInt(timeRange), with daysAgo = (Date.now() - created_at) / one day;
\* a comparison with NaN is false.
InWindow(c, tr, t) ==
    LET n == parseInt(tr)
    IN  /\ ~isNaN(n)
        /\ (t - c.created_at) <= n.val * HoursPerDay

FilterWindow(cs, tr, t) ==
    LET Keep(c) == InWindow(c, tr, t) IN SelectSeq(cs, Keep)

\* c.data.f && !isNaN(Number(c.data.f))
ValidNumber(v) == Truthy(v) /\ ~isNaN(Number(v))

\* Variant: no guard on an empty valid set, so that the quotient is 0 / 0.
Average_NoGuard(vs) ==
    LET valid == SelectSeq(vs, ValidNumber)
        total == SeqSum([i \in 1..Len(valid) |-> Number(valid[i]).val])
    IN  IF Len(valid) > 0 THEN Quotient(total, Len(valid)) ELSE [num |-> 0, den |-> 0]

\* valid.length > 0 ? valid.reduce((sum, c) => sum + Number(c.data.f), 0) / valid.length : 0
Average(vs) ==
    LET valid == SelectSeq(vs, ValidNumber)
        total == SeqSum([i \in 1..Len(valid) |-> Number(valid[i]).val])
    IN  IF Len(valid) > 0 THEN Quotient(total, Len(valid)) ELSE Zero

\* Variant: the comparator a.count - b.count, ascending by count.
RECURSIVE SortByCountAsc(_)
SortByCountAsc(es) ==
    IF es = <<>> THEN <<>>
    ELSE LET front == SortByCountAsc(SubSeq(es, 1, Len(es) - 1))
             e == es[Len(es)]
             k == Cardinality({i \in 1..Len(front) : front[i].count <= e.count})
         IN  SubSeq(front, 1, k) \o <<e>> \o SubSeq(front, k + 1, Len(front))

\* Array.prototype.sort((a, b) => b.count - a.count): stable, descending by count
RECURSIVE SortByCountDesc(_)
SortByCountDesc(es) ==
    IF es = <<>> THEN <<>>
    ELSE LET front == SortByCountDesc(SubSeq(es, 1, Len(es) - 1))
             e == es[Len(es)]
             k == Cardinality({i \in 1..Len(front) : front[i].count >= e.count})
         IN  SubSeq(front, 1, k) \o <<e>> \o SubSeq(front, k + 1, Len(front))

\* slice(0, n)
Slice(s, n) == SubSeq(s, 1, IF Len(s) < n THEN Len(s) ELSE n)

\* Variant: the sorted entries are in ascending order of count.
TopLocations_Asc(fc) ==
    LET HasLocation(c) == Truthy(c.data.location)
        located == SelectSeq(fc, HasLocation)
        locationCounts == CountKeys([i \in 1..Len(located) |-> located[i].data.location])
        entries == ObjectEntries(locationCounts)
        mapped == [i \in 1..Len(entries) |-> [location |-> entries[i][1], count |-> entries[i][2]]]
    IN  Slice(SortByCountAsc(mapped), TopN)

TopLocations(fc) ==
    LET HasLocation(c) == Truthy(c.data.location)
        located == SelectSeq(fc, HasLocation)
        locationCounts == CountKeys([i \in 1..Len(located) |-> located[i].data.location])
        entries == ObjectEntries(locationCounts)
        mapped == [i \in 1..Len(entries) |-> [location |-> entries[i][1], count |-> entries[i][2]]]
    IN  Slice(SortByCountDesc(mapped), TopN)

ComputeAnalytics(cs, tr, t) ==
    LET filteredCaptures == FilterWindow(cs, tr, t)
        HasQuality(c) == c.data.waterQuality # ""
        withQuality == SelectSeq(filteredCaptures, HasQuality)
        n == Len(filteredCaptures)
    IN  [ totalCaptures |-> n,
          capturesByStatus |-> CountKeys([i \in 1..n |-> filteredCaptures[i].status]),
          averageTemperature |-> Average([i \in 1..n |-> filteredCaptures[i].data.temperature]),
          averageHumidity |-> Average([i \in 1..n |-> filteredCaptures[i].data.humidity]),
          averageWindSpeed |-> Average([i \in 1..n |-> filteredCaptures[i].data.windSpeed]),
          averageWaterLevel |-> Average([i \in 1..n |-> filteredCaptures[i].data.waterLevel]),
          waterQualityDistribution |->
              CountKeys([i \in 1..Len(withQuality) |-> withQuality[i].data.waterQuality]),
          capturesByMonth |->
              CountKeys([i \in 1..n |-> MonthLabel(filteredCaptures[i].created_at)]),
          topLocations |-> TopLocations(filteredCaptures) ]

\* A JavaScript number that may be -Infinity.
MinusInfinity == [infinite |-> TRUE, val |-> 0]
Finite(n) == [infinite |-> FALSE, val |-> n]

\* Math.max(...values): the largest argument, -Infinity when there is none.
MathMax(values) ==
    IF values = <<>> THEN MinusInfinity
    ELSE Finite(CHOOSE m \in {values[i] : i \in 1..Len(values)} :
                    \A i \in 1..Len(values) : values[i] <= m)

\* The value rendered as "Peak Monthly Captures".
PeakMonthlyCaptures(data) == MathMax(ObjectValues(data.capturesByMonth))

(***************************************************************************)
(* Records and the inputs drawn for the store.                             *)
(***************************************************************************)
Statuses == {"draft", "submitted", "approved", "rejected"}
WaterQualities == {"excellent", "good", "fair", "poor", "very-poor"}
TimeRanges == {<<"7">>, <<"3", "0">>, <<"9", "0">>, <<"3", "6", "5">>}
NumericFields == {"temperature", "humidity", "windSpeed", "waterLevel"}

Now0 == 400 * HoursPerDay          \* the initial instant, 2024-02-05T00:00
Recent == Now0 - HoursPerDay        \* created one day before Now0
Old == Now0 - 400 * HoursPerDay     \* created 400 days before Now0

EmptyData ==
    [ location |-> <<"p">>, date |-> "2024-02-04", time |-> "10:00",
      temperature |-> <<>>, humidity |-> <<>>, windSpeed |-> <<>>, waterLevel |-> <<>>,
      waterQuality |-> "", observations |-> "", photoUrls |-> <<>> ]

UserId == "u1"

BaseRecord(id, created) ==
    [ id |-> id, user_id |-> UserId, title |-> <<"S">>, description |-> "", status |-> "draft",
      created_at |-> created, data |-> EmptyData ]

\* All sequences over S of length at most n.
SeqsUpTo(S, n) == UNION {[1..k -> S] : k \in 0..n}

\* Record i of a drawn store content is in the window (Recent) when i <= cut.
CreatedAt(i, cut) == IF i <= cut THEN Recent ELSE Old

StatusInputs ==
    { [i \in 1..Len(v) |-> [BaseRecord(i, CreatedAt(i, cut)) EXCEPT !.status = v[i]]] :
        <<v, cut>> \in {<<w, c>> \in SeqsUpTo(Statuses, MaxRecs) \X (0..MaxRecs) : c <= Len(w)} }

NumericValues == << <<>>, <<"2", "0">>, <<"b", "a", "d">>, <<"7">>, <<" ">> >>

\* The four numeric fields of one drawn record take the values at positions
\* j, j+1, j+2, j+3 (cyclically) of NumericValues.
NumericAt(j, shift) == NumericValues[((j - 1 + shift) % Len(NumericValues)) + 1]

NumericInputs ==
    { [i \in 1..Len(v) |->
          [BaseRecord(i, CreatedAt(i, cut)) EXCEPT
              !.data.temperature = NumericAt(v[i], 0),
              !.data.humidity = NumericAt(v[i], 1),
              !.data.windSpeed = NumericAt(v[i], 2),
              !.data.waterLevel = NumericAt(v[i], 3)]] :
        <<v, cut>> \in {<<w, c>> \in SeqsUpTo(1..Len(NumericValues), MaxRecs) \X (0..MaxRecs) :
                            c <= Len(w)} }

\* Two namings of the locations drawn: without and with the empty location.
LocationNamings ==
    { << <<"p">>, <<"7">>, <<"q">>, <<"3">>, <<"r">>, <<"P">>, <<"s">> >>,
      << <<>>, <<"p">>, <<"7">>, <<"q">>, <<"3">>, <<"r">>, <<"P">> >> }
LocationsNamed == Len(CHOOSE names \in LocationNamings : TRUE)

\* Sequences of location indices in which a location first occurs only after
\* all locations before it in the naming have occurred.
RECURSIVE GrowthSeqs(_)
GrowthSeqs(n) ==
    IF n = 0 THEN {<<>>}
    ELSE LET shorter == GrowthSeqs(n - 1)
             Used(w) == Cardinality({w[i] : i \in 1..Len(w)})
         IN  { Append(w, k) : <<w, k>> \in
                 {<<x, j>> \in {y \in shorter : Len(y) = n - 1} \X (1..LocationsNamed) :
                      j <= Used(x) + 1} } \cup shorter

LocationInputs ==
    { [i \in 1..Len(d[1]) |->
          [BaseRecord(i, CreatedAt(i, d[2])) EXCEPT !.data.location = d[3][d[1][i]]]] :
        d \in {<<w, c, names>> \in GrowthSeqs(MaxLocRecs) \X (0..MaxLocRecs) \X LocationNamings :
                  c \in {Len(w) - 1, Len(w)} /\ c >= 0} }

\* Ages, in hours before Now0, at and just beyond the four window boundaries.
WindowAges == << 0, 7 * HoursPerDay, 7 * HoursPerDay + 1, 30 * HoursPerDay, 30 * HoursPerDay + 1,
                 90 * HoursPerDay, 365 * HoursPerDay, 365 * HoursPerDay + 1 >>

WindowInputs ==
    { [i \in 1..Len(v) |-> BaseRecord(i, Now0 - WindowAges[v[i]])] :
        v \in {w \in SeqsUpTo(1..Len(WindowAges), MaxRecs) :
                  \A i \in 1..(Len(w) - 1) : w[i] < w[i + 1]} }

\* Values of data.waterQuality in the rows drawn: the empty string (the form's
\* initial value; an absent key is falsy alike), categories the form offers,
\* and a string that is none of them (data is a JSON column without schema).
QualityValues == {"", "good", "poor", "very-poor", "unknown"}

QualityInputs ==
    { [i \in 1..Len(v) |->
          [BaseRecord(i, CreatedAt(i, cut)) EXCEPT !.data.waterQuality = v[i]]] :
        <<v, cut>> \in {<<w, c>> \in SeqsUpTo(QualityValues, MaxRecs) \X (0..MaxRecs) :
                            c <= Len(w)} }

AggInputs == StatusInputs \cup NumericInputs \cup LocationInputs \cup QualityInputs

(***************************************************************************)
(* HomePage: the session and what is rendered for it.                      *)
(***************************************************************************)
NoUser == "null"

\* The values useSupabase() can return: loading or not, with or without a user.
SessionStates == [loading : BOOLEAN, user : {NoUser, UserId}]

SignedIn == [loading |-> FALSE, user |-> UserId]

\* Variant: the test for the user is made before the test for loading.
HomePage_UserFirst(user, loading) ==
    IF user = NoUser THEN "AuthForm"
    ELSE IF loading THEN "LoadingSpinner"
    ELSE "Dashboard"

\* if (loading) return the spinner; if (!user) return <AuthForm />; return <Dashboard />
HomePage(user, loading) ==
    IF loading THEN "LoadingSpinner"
    ELSE IF user = NoUser THEN "AuthForm"
    ELSE "Dashboard"

Rendered == HomePage(session.user, session.loading)

(***************************************************************************)
(* Initial values of the three components' state (their useState calls).   *)
(***************************************************************************)
InitialFormData ==
    [ title |-> <<>>, description |-> "", location |-> <<>>,
      date |-> "2024-02-05", time |-> "00:00",
      temperature |-> <<>>, humidity |-> <<>>, windSpeed |-> <<>>, waterLevel |-> <<>>,
      waterQuality |-> "", observations |-> "", photos |-> <<>> ]

StoreInit(content) ==
    /\ db = content
    /\ bucket = <<>>
    /\ now = Now0
    /\ nextId = Len(content) + 1

AnalyticsIdle ==
    /\ timeRange = <<"3", "0">>
    /\ analyticsData = Null
    /\ analyticsLoading = TRUE
    /\ aFetches = {}
    /\ aIssued = 0
    /\ aLast = Null
    /\ aDone = <<>>

ListIdle ==
    /\ captures = <<>>
    /\ listLoading = TRUE
    /\ searchTerm = <<>>
    /\ statusFilter = "all"
    /\ selectedCapture = Null
    /\ lReqs = {}
    /\ lIssued = 0
    /\ lCalls = <<>>

FormIdle ==
    /\ formData = InitialFormData
    /\ formLoading = FALSE
    /\ error = NullMessage
    /\ success = FALSE
    /\ submits = {}
    /\ calls = <<>>
    /\ submitted = 0

(***************************************************************************)
(* The clock.                                                              *)
(***************************************************************************)
Tick ==
    /\ now < Now0 + MaxTicks
    /\ now' = now + 1
    /\ UNCHANGED <<db, bucket, nextId, analyticsVars, listVars, formVars, dashVars>>

(***************************************************************************)
(* Analytics: state machine of the aggregation view.                       *)
(***************************************************************************)
\* A fetch in flight: the timeRange its closure captured, and the rows the
\* store answered with once the select has run.
NewFetch(id, tr) == [id |-> id, timeRange |-> tr, phase |-> "sent", data |-> <<>>]

\* useEffect(() => { fetchAnalytics() }, [timeRange]) on mount
AnalyticsMounted ==
    /\ timeRange = <<"3", "0">>
    /\ analyticsData = Null
    /\ analyticsLoading = TRUE
    /\ aFetches = {NewFetch(1, <<"3", "0">>)}
    /\ aIssued = 1
    /\ aLast = Null
    /\ aDone = <<>>

\* Variant: the fetch filters by the window of the render before the change.
SetTimeRange_StaleClosure(v) ==
    /\ currentView = "analytics"
    /\ ~analyticsLoading
    /\ analyticsData # Null
    /\ v # timeRange
    /\ aIssued < MaxFetches
    /\ timeRange' = v
    /\ aIssued' = aIssued + 1
    /\ aFetches' = aFetches \cup {NewFetch(aIssued + 1, timeRange)}
    /\ UNCHANGED <<analyticsData, analyticsLoading, aLast, aDone,
                   storeVars, listVars, formVars, dashVars>>

\* Variant: the change of the window shows the loading indicator again.
SetTimeRange_ShowsLoading(v) ==
    /\ currentView = "analytics"
    /\ ~analyticsLoading
    /\ analyticsData # Null
    /\ v # timeRange
    /\ aIssued < MaxFetches
    /\ timeRange' = v
    /\ analyticsLoading' = TRUE
    /\ aIssued' = aIssued + 1
    /\ aFetches' = aFetches \cup {NewFetch(aIssued + 1, v)}
    /\ UNCHANGED <<analyticsData, aLast, aDone, storeVars, listVars, formVars, dashVars>>

\* The selector is rendered only once loading is over and a result exists;
\* the effect on [timeRange] then issues a new fetch.
SetTimeRange(v) ==
    /\ currentView = "analytics"
    /\ ~analyticsLoading
    /\ analyticsData # Null
    /\ v # timeRange
    /\ aIssued < MaxFetches
    /\ timeRange' = v
    /\ aIssued' = aIssued + 1
    /\ aFetches' = aFetches \cup {NewFetch(aIssued + 1, v)}
    /\ UNCHANGED <<analyticsData, analyticsLoading, aLast, aDone,
                   storeVars, listVars, formVars, dashVars>>

\* The store executes select('*').eq('user_id', ...).order('created_at', desc).
AnalyticsSelect(f) ==
    /\ f.phase = "sent"
    /\ aFetches' = (aFetches \ {f}) \cup {[f EXCEPT !.phase = "answered", !.data = db]}
    /\ UNCHANGED <<timeRange, analyticsData, analyticsLoading, aIssued, aLast, aDone,
                   storeVars, listVars, formVars, dashVars>>

\* Variant: a result for a window other than the selected one is dropped.
FetchAnalyticsOk_DropsStale(f) ==
    /\ f.phase = "answered"
    /\ analyticsData' =
          IF f.timeRange = timeRange THEN ComputeAnalytics(f.data, f.timeRange, now)
          ELSE analyticsData
    /\ analyticsLoading' = FALSE
    /\ aLast' =
          IF f.timeRange = timeRange
          THEN [data |-> f.data, timeRange |-> f.timeRange, at |-> now]
          ELSE aLast
    /\ aFetches' = aFetches \ {f}
    /\ aDone' = Append(aDone, [id |-> f.id, timeRange |-> f.timeRange, ok |-> TRUE])
    /\ UNCHANGED <<timeRange, aIssued, storeVars, listVars, formVars, dashVars>>

\* fetchAnalytics resumes with rows: aggregate, setAnalyticsData, setLoading(false).
FetchAnalyticsOk(f) ==
    /\ f.phase = "answered"
    /\ analyticsData' = ComputeAnalytics(f.data, f.timeRange, now)
    /\ analyticsLoading' = FALSE
    /\ aLast' = [data |-> f.data, timeRange |-> f.timeRange, at |-> now]
    /\ aFetches' = aFetches \ {f}
    /\ aDone' = Append(aDone, [id |-> f.id, timeRange |-> f.timeRange, ok |-> TRUE])
    /\ UNCHANGED <<timeRange, aIssued, storeVars, listVars, formVars, dashVars>>

\* fetchAnalytics resumes with an error: logged, setLoading(false).
FetchAnalyticsErr(f) ==
    /\ analyticsLoading' = FALSE
    /\ aFetches' = aFetches \ {f}
    /\ aDone' = Append(aDone, [id |-> f.id, timeRange |-> f.timeRange, ok |-> FALSE])
    /\ UNCHANGED <<timeRange, analyticsData, aIssued, aLast,
                   storeVars, listVars, formVars, dashVars>>

\* One aggregation run (the fetch issued on mount) over each drawn store content.
InitAgg ==
    /\ \E content \in AggInputs : StoreInit(content)
    /\ AnalyticsMounted
    /\ ListIdle
    /\ FormIdle
    /\ currentView = "analytics"
    /\ timers = 0
    /\ session = SignedIn

NextAgg ==
    \/ \E f \in aFetches : AnalyticsSelect(f)
    \/ \E f \in aFetches : FetchAnalyticsOk(f)
    \/ \E f \in aFetches : FetchAnalyticsErr(f)

SpecAgg == InitAgg /\ [][NextAgg]_vars

\* The aggregation view under selector changes and a running clock, over
\* store contents with rows at the window boundaries.  The selector is changed
\* when no fetch is in flight; SpecSelector below changes it at any time.
InitWindow ==
    /\ \E content \in WindowInputs : StoreInit(content)
    /\ AnalyticsMounted
    /\ ListIdle
    /\ FormIdle
    /\ currentView = "analytics"
    /\ timers = 0
    /\ session = SignedIn

NextWindow ==
    \/ Tick
    \/ \E v \in TimeRanges : aFetches = {} /\ SetTimeRange(v)
    \/ \E f \in aFetches : AnalyticsSelect(f)
    \/ \E f \in aFetches : FetchAnalyticsOk(f)
    \/ \E f \in aFetches : FetchAnalyticsErr(f)

SpecWindow == InitWindow /\ [][NextWindow]_vars

\* The aggregation view under selector changes made at any time, over a store
\* with one row in each of the 7-, 30- and 90-day windows.
SelectorStore ==
    << BaseRecord(1, Now0 - WindowAges[1]), BaseRecord(2, Now0 - WindowAges[4]),
       BaseRecord(3, Now0 - WindowAges[6]) >>

InitSelector ==
    /\ StoreInit(SelectorStore)
    /\ AnalyticsMounted
    /\ ListIdle
    /\ FormIdle
    /\ currentView = "analytics"
    /\ timers = 0
    /\ session = SignedIn

NextSelector ==
    \/ \E v \in TimeRanges : SetTimeRange(v)
    \/ \E f \in aFetches : AnalyticsSelect(f)
    \/ \E f \in aFetches : FetchAnalyticsOk(f)
    \/ \E f \in aFetches : FetchAnalyticsErr(f)

SpecSelector == InitSelector /\ [][NextSelector]_vars

(***************************************************************************)
(* DataList: the client-side filters.                                      *)
(***************************************************************************)
UpperLetters == <<"A", "B", "L", "P", "S">>
LowerLetters == <<"a", "b", "l", "p", "s">>

\* String.prototype.toLowerCase, over the letters drawn
LowerChar(c) ==
    IF \E i \in 1..Len(UpperLetters) : UpperLetters[i] = c
    THEN LowerLetters[CHOOSE i \in 1..Len(UpperLetters) : UpperLetters[i] = c]
    ELSE c

toLowerCase(str) == [i \in 1..Len(str) |-> LowerChar(str[i])]

\* String.prototype.includes
includes(str, part) ==
    \E k \in 0..(Len(str) - Len(part)) : SubSeq(str, k + 1, k + Len(part)) = part

\* Variant: the search term is not lower-cased.
matchesSearch_CaseSensitive(capture, term) ==
    \/ includes(toLowerCase(capture.title), term)
    \/ includes(toLowerCase(capture.data.location), term)

matchesSearch(capture, term) ==
    \/ includes(toLowerCase(capture.title), toLowerCase(term))
    \/ includes(toLowerCase(capture.data.location), toLowerCase(term))

\* Variant: no pass-through for "all".
matchesStatus_NoAll(capture, filter) == capture.status = filter

matchesStatus(capture, filter) == filter = "all" \/ capture.status = filter

\* Variant: the two filters are combined with OR.
FilteredCaptures_Or(cs, term, filter) ==
    LET Keep(c) == matchesSearch(c, term) \/ matchesStatus(c, filter)
    IN  SelectSeq(cs, Keep)

\* const filteredCaptures = captures.filter(...), evaluated at every render
FilteredCaptures(cs, term, filter) ==
    LET Keep(c) == matchesSearch(c, term) /\ matchesStatus(c, filter)
    IN  SelectSeq(cs, Keep)

filteredCaptures == FilteredCaptures(captures, searchTerm, statusFilter)

(***************************************************************************)
(* DataList: state machine of the listing view.                            *)
(***************************************************************************)
NewListFetch(id) == [id |-> id, op |-> "fetch", phase |-> "sent", data |-> <<>>]

\* useEffect(() => { fetchCaptures() }, []) on mount
ListMounted ==
    /\ captures = <<>>
    /\ listLoading = TRUE
    /\ searchTerm = <<>>
    /\ statusFilter = "all"
    /\ selectedCapture = Null
    /\ lReqs = {NewListFetch(1)}
    /\ lIssued = 1
    /\ lCalls = <<[op |-> "fetch", req |-> 1, cause |-> "mount"]>>

\* The store executes the select of fetchCaptures.
ListSelect(r) ==
    /\ r.op = "fetch"
    /\ r.phase = "sent"
    /\ lReqs' = (lReqs \ {r}) \cup {[r EXCEPT !.phase = "answered", !.data = db]}
    /\ UNCHANGED <<captures, listLoading, searchTerm, statusFilter, selectedCapture, lIssued, lCalls,
                   storeVars, analyticsVars, formVars, dashVars>>

\* fetchCaptures resumes with rows: setCaptures(data || []), setLoading(false).
FetchCapturesOk(r) ==
    /\ r.op = "fetch"
    /\ r.phase = "answered"
    /\ captures' = r.data
    /\ listLoading' = FALSE
    /\ lReqs' = lReqs \ {r}
    /\ lCalls' = Append(lCalls, [op |-> "fetched", req |-> r.id])
    /\ UNCHANGED <<searchTerm, statusFilter, selectedCapture, lIssued,
                   storeVars, analyticsVars, formVars, dashVars>>

\* Variant: the catch block empties the list.
FetchCapturesErr_ClearsList(r) ==
    /\ r.op = "fetch"
    /\ captures' = <<>>
    /\ listLoading' = FALSE
    /\ lReqs' = lReqs \ {r}
    /\ lCalls' = Append(lCalls, [op |-> "fetchFailed", req |-> r.id])
    /\ UNCHANGED <<searchTerm, statusFilter, selectedCapture, lIssued,
                   storeVars, analyticsVars, formVars, dashVars>>

\* fetchCaptures resumes with an error: logged, setLoading(false).
FetchCapturesErr(r) ==
    /\ r.op = "fetch"
    /\ listLoading' = FALSE
    /\ lReqs' = lReqs \ {r}
    /\ lCalls' = Append(lCalls, [op |-> "fetchFailed", req |-> r.id])
    /\ UNCHANGED <<captures, searchTerm, statusFilter, selectedCapture, lIssued,
                   storeVars, analyticsVars, formVars, dashVars>>

\* onChange of the search input (rendered once loading is over)
SetSearchTerm(v) ==
    /\ currentView = "data"
    /\ ~listLoading
    /\ v # searchTerm
    /\ searchTerm' = v
    /\ UNCHANGED <<captures, listLoading, statusFilter, selectedCapture, lReqs, lIssued, lCalls,
                   storeVars, analyticsVars, formVars, dashVars>>

\* onValueChange of the status select (rendered once loading is over)
SetStatusFilter(v) ==
    /\ currentView = "data"
    /\ ~listLoading
    /\ v # statusFilter
    /\ statusFilter' = v
    /\ UNCHANGED <<captures, listLoading, searchTerm, selectedCapture, lReqs, lIssued, lCalls,
                   storeVars, analyticsVars, formVars, dashVars>>

\* The ids of a sequence of rows.
Ids(rows) == {rows[i].id : i \in 1..Len(rows)}

\* onClick of a row's view button, and of the detail view's close buttons
SetSelectedCapture(c) ==
    /\ currentView = "data"
    /\ ~listLoading
    /\ c # selectedCapture
    /\ c = Null \/ \E i \in 1..Len(filteredCaptures) : filteredCaptures[i] = c
    /\ selectedCapture' = c
    /\ UNCHANGED <<captures, listLoading, searchTerm, statusFilter, lReqs, lIssued, lCalls,
                   storeVars, analyticsVars, formVars, dashVars>>

\* A delete in flight: the id it names, and whether the listing that issued
\* it is still mounted.
NewDelete(id, target) ==
    [id |-> id, op |-> "delete", phase |-> "sent", target |-> target, live |-> TRUE]

\* Number of confirm() dialogs answered so far.
Confirms == Cardinality({i \in 1..Len(lCalls) : lCalls[i].op = "confirm"})

\* Variant: the delete is issued whatever confirm() returns.
HandleDelete_NoConfirm(id, answer) ==
    /\ currentView = "data"
    /\ ~listLoading
    /\ \E i \in 1..Len(filteredCaptures) : filteredCaptures[i].id = id
    /\ Confirms < MaxConfirms
    /\ lReqs' = lReqs \cup {NewDelete(lIssued + 1, id)}
    /\ lIssued' = lIssued + 1
    /\ lCalls' = lCalls \o << [op |-> "confirm", id |-> id, answer |-> answer],
                              [op |-> "delete", id |-> id, req |-> lIssued + 1] >>
    /\ UNCHANGED <<captures, listLoading, searchTerm, statusFilter, selectedCapture,
                   storeVars, analyticsVars, formVars, dashVars>>

\* handleDelete(id) up to its await: confirm() returns answer; on true the
\* delete is issued, on false the handler ends.
HandleDelete(id, answer) ==
    /\ currentView = "data"
    /\ ~listLoading
    /\ \E i \in 1..Len(filteredCaptures) : filteredCaptures[i].id = id
    /\ Confirms < MaxConfirms
    /\ IF answer
       THEN /\ lReqs' = lReqs \cup {NewDelete(lIssued + 1, id)}
            /\ lIssued' = lIssued + 1
            /\ lCalls' = lCalls \o << [op |-> "confirm", id |-> id, answer |-> TRUE],
                                      [op |-> "delete", id |-> id, req |-> lIssued + 1] >>
       ELSE /\ lCalls' = Append(lCalls, [op |-> "confirm", id |-> id, answer |-> FALSE])
            /\ UNCHANGED <<lReqs, lIssued>>
    /\ UNCHANGED <<captures, listLoading, searchTerm, statusFilter, selectedCapture,
                   storeVars, analyticsVars, formVars, dashVars>>

\* Variant: the store marks the row instead of removing it.
DeleteExec_Soft(r) ==
    /\ r.op = "delete"
    /\ r.phase = "sent"
    /\ db' = [i \in 1..Len(db) |->
                 IF db[i].id = r.target THEN [db[i] EXCEPT !.status = "deleted"] ELSE db[i]]
    /\ lReqs' = (lReqs \ {r}) \cup {[r EXCEPT !.phase = "answered"]}
    /\ UNCHANGED <<bucket, now, nextId, captures, listLoading, searchTerm, statusFilter,
                   selectedCapture, lIssued, lCalls, analyticsVars, formVars, dashVars>>

\* The store executes delete().eq('id', id): the row with that id is removed.
DeleteExec(r) ==
    /\ r.op = "delete"
    /\ r.phase = "sent"
    /\ db' = SelectSeq(db, LAMBDA row : row.id # r.target)
    /\ lReqs' = (lReqs \ {r}) \cup {[r EXCEPT !.phase = "answered"]}
    /\ UNCHANGED <<bucket, now, nextId, captures, listLoading, searchTerm, statusFilter,
                   selectedCapture, lIssued, lCalls, analyticsVars, formVars, dashVars>>

\* handleDelete resumes without error: fetchCaptures() is called.  The fetch
\* of a listing that is no longer mounted is issued and its result dropped.
DeleteOk(r) ==
    /\ r.op = "delete"
    /\ r.phase = "answered"
    /\ lReqs' = (lReqs \ {r}) \cup (IF r.live THEN {NewListFetch(lIssued + 1)} ELSE {})
    /\ lIssued' = lIssued + 1
    /\ lCalls' = lCalls \o << [op |-> "deleted", id |-> r.target, req |-> r.id],
                              [op |-> "fetch", req |-> lIssued + 1, cause |-> "delete"] >>
    /\ UNCHANGED <<captures, listLoading, searchTerm, statusFilter, selectedCapture,
                   storeVars, analyticsVars, formVars, dashVars>>

\* handleDelete resumes with an error, reported before or after the store
\* executed the delete: the error is logged and the handler ends.
DeleteErr(r) ==
    /\ r.op = "delete"
    /\ lReqs' = lReqs \ {r}
    /\ lCalls' = Append(lCalls, [op |-> "deleteFailed", id |-> r.target, req |-> r.id])
    /\ UNCHANGED <<captures, listLoading, searchTerm, statusFilter, selectedCapture, lIssued,
                   storeVars, analyticsVars, formVars, dashVars>>

\* Inputs of the listing.
SearchTerms == { <<>>, <<"a">>, <<"A">>, <<"l", "a">>, <<"B", "a">>, <<"p">> }
StatusFilters == {"all"} \cup Statuses

\* Title, location and status of the rows drawn for the listing.
ListProfiles ==
    << [title |-> <<"L", "a", "b">>, location |-> <<"p">>, status |-> "draft"],
       [title |-> <<"S">>, location |-> <<"l", "A">>, status |-> "draft"],
       [title |-> <<"a", "b">>, location |-> <<"B", "A">>, status |-> "submitted"],
       [title |-> <<"S">>, location |-> <<"p">>, status |-> "approved"],
       [title |-> <<"b", "a">>, location |-> <<"s", " ", "p">>, status |-> "rejected"] >>

ListInputs ==
    { [i \in 1..Len(v) |->
          [BaseRecord(i, Recent) EXCEPT
              !.title = ListProfiles[v[i]].title,
              !.data.location = ListProfiles[v[i]].location,
              !.status = ListProfiles[v[i]].status]] :
        v \in SeqsUpTo(1..Len(ListProfiles), MaxRecs) }

\* The listing under filter changes, over each drawn store content.
InitFilter ==
    /\ \E content \in ListInputs : StoreInit(content)
    /\ ListMounted
    /\ AnalyticsIdle
    /\ FormIdle
    /\ currentView = "data"
    /\ timers = 0
    /\ session = SignedIn

NextFilter ==
    \/ \E r \in lReqs : ListSelect(r)
    \/ \E r \in lReqs : FetchCapturesOk(r)
    \/ \E r \in lReqs : FetchCapturesErr(r)
    \/ \E v \in SearchTerms : SetSearchTerm(v)
    \/ \E v \in StatusFilters : SetStatusFilter(v)

SpecFilter == InitFilter /\ [][NextFilter]_vars

\* Store contents for the listing under deletes: a prefix of three rows with
\* the profiles named.
DeleteProfiles == <<1, 3, 4>>
DeleteInputs ==
    { [i \in 1..n |->
          [BaseRecord(i, Recent) EXCEPT
              !.title = ListProfiles[DeleteProfiles[i]].title,
              !.data.location = ListProfiles[DeleteProfiles[i]].location,
              !.status = ListProfiles[DeleteProfiles[i]].status]] : n \in 0..Len(DeleteProfiles) }

\* Status filters chosen while records are deleted.
DeleteFilters == {"all", "draft"}

\* The listing under deletes, detail selection and a status filter.  A delete
\* is asked for when no request is in flight; SpecDeletes below asks at any time.
InitList ==
    /\ \E content \in DeleteInputs : StoreInit(content)
    /\ ListMounted
    /\ AnalyticsIdle
    /\ FormIdle
    /\ currentView = "data"
    /\ timers = 0
    /\ session = SignedIn

NextList ==
    \/ \E r \in lReqs : ListSelect(r)
    \/ \E r \in lReqs : FetchCapturesOk(r)
    \/ \E r \in lReqs : FetchCapturesErr(r)
    \/ \E v \in DeleteFilters : SetStatusFilter(v)
    \/ \E c \in {Null} \cup {captures[i] : i \in 1..Len(captures)} : SetSelectedCapture(c)
    \/ \E id \in Ids(captures) : \E answer \in BOOLEAN : lReqs = {} /\ HandleDelete(id, answer)
    \/ \E r \in lReqs : DeleteExec(r)
    \/ \E r \in lReqs : DeleteOk(r)
    \/ \E r \in lReqs : DeleteErr(r)

SpecList == InitList /\ [][NextList]_vars

\* The listing over a store of two rows, with deletes confirmed at any time
\* and every call succeeding.
DeleteStore == CHOOSE content \in DeleteInputs : Len(content) = 2

InitDeletes ==
    /\ StoreInit(DeleteStore)
    /\ ListMounted
    /\ AnalyticsIdle
    /\ FormIdle
    /\ currentView = "data"
    /\ timers = 0
    /\ session = SignedIn

NextDeletes ==
    \/ \E r \in lReqs : ListSelect(r)
    \/ \E r \in lReqs : FetchCapturesOk(r)
    \/ \E id \in Ids(captures) : HandleDelete(id, TRUE)
    \/ \E r \in lReqs : DeleteExec(r)
    \/ \E r \in lReqs : DeleteOk(r)

SpecDeletes == InitDeletes /\ [][NextDeletes]_vars

(***************************************************************************)
(* CaptureForm: state machine of the entry form.                           *)
(***************************************************************************)
Files == {"a.png", "b.png"}

\* `${Date.now()}-${photo.name}`
FileName(t, photo) == <<t, photo>>

\* supabase.storage.from('capture-photos').getPublicUrl(fileName)
PublicUrl(fileName) == [bucket |-> "capture-photos", name |-> fileName]

\* Variant: humidity is filled from the temperature field.
InsertPayload_WrongField(form, photoUrls) ==
    [ user_id |-> UserId,
      title |-> form.title,
      description |-> form.description,
      data |-> [ location |-> form.location,
                 date |-> form.date,
                 time |-> form.time,
                 temperature |-> form.temperature,
                 humidity |-> form.temperature,
                 windSpeed |-> form.windSpeed,
                 waterLevel |-> form.waterLevel,
                 waterQuality |-> form.waterQuality,
                 observations |-> form.observations,
                 photoUrls |-> photoUrls ],
      status |-> "draft" ]

\* Variant: the record is created as submitted.
InsertPayload_Submitted(form, photoUrls) ==
    [InsertPayload_WrongField(form, photoUrls) EXCEPT
        !.data.humidity = form.humidity, !.status = "submitted"]

\* The object passed to insert().
InsertPayload(form, photoUrls) ==
    [ user_id |-> UserId,
      title |-> form.title,
      description |-> form.description,
      data |-> [ location |-> form.location,
                 date |-> form.date,
                 time |-> form.time,
                 temperature |-> form.temperature,
                 humidity |-> form.humidity,
                 windSpeed |-> form.windSpeed,
                 waterLevel |-> form.waterLevel,
                 waterQuality |-> form.waterQuality,
                 observations |-> form.observations,
                 photoUrls |-> photoUrls ],
      status |-> "draft" ]

\* The row the store creates for an inserted object (id and created_at by default).
StoredRow(payload, id, t) ==
    [ id |-> id, user_id |-> payload.user_id, title |-> payload.title,
      description |-> payload.description, status |-> payload.status,
      created_at |-> t, data |-> payload.data ]

\* The form is on screen: the capture view is active and the confirmation is not shown.
FormShown == currentView = "capture" /\ ~success

\* The required attribute of the title, location, date and time inputs.
RequiredFilled(form) ==
    /\ form.title # <<>>
    /\ form.location # <<>>
    /\ form.date # ""
    /\ form.time # ""

\* The values typed into a field that is edited.
EditValues(field) ==
    IF field = "title" THEN {<<>>, <<"S", "a">>}
    ELSE IF field = "location" THEN {<<"L", "x">>}
    ELSE {<<>>, <<"7">>}

\* handleInputChange(field, value) for a string field
HandleInputChange(field, value) ==
    /\ FormShown
    /\ formData[field] # value
    /\ formData' = [formData EXCEPT ![field] = value]
    /\ UNCHANGED <<formLoading, error, success, submits, calls, submitted,
                   storeVars, analyticsVars, listVars, dashVars>>

\* Number of file selections and photo removals logged so far.
PhotoEvents ==
    Cardinality({i \in 1..Len(calls) : calls[i].op \in {"filesSelected", "photoRemoved"}})

\* handleFileUpload: the files selected in the dialog, in selection order, are
\* put after the photos attached so far.
HandleFileUpload(files) ==
    /\ FormShown
    /\ files # <<>>
    /\ PhotoEvents < MaxPhotoEvents
    /\ Len(formData.photos) + Len(files) <= MaxPhotos
    /\ formData' = [formData EXCEPT !.photos = formData.photos \o files]
    /\ calls' = Append(calls, [op |-> "filesSelected", files |-> files])
    /\ UNCHANGED <<formLoading, error, success, submits, submitted,
                   storeVars, analyticsVars, listVars, dashVars>>

\* formData.photos.filter((_, i) => i !== index), with positions counted from 1
FilterOutIndex(photos, index) ==
    [k \in 1..(Len(photos) - 1) |-> IF k < index THEN photos[k] ELSE photos[k + 1]]

\* Variant: every photo equal to the one at the index is dropped.
RemovePhoto_ByName(index) ==
    /\ FormShown
    /\ index \in 1..Len(formData.photos)
    /\ PhotoEvents < MaxPhotoEvents
    /\ formData' = [formData EXCEPT
                       !.photos = SelectSeq(formData.photos,
                                            LAMBDA ph : ph # formData.photos[index])]
    /\ calls' = Append(calls, [op |-> "photoRemoved", index |-> index])
    /\ UNCHANGED <<formLoading, error, success, submits, submitted,
                   storeVars, analyticsVars, listVars, dashVars>>

\* onClick of the remove button of the photo at the index:
\* handleInputChange('photos', newPhotos)
RemovePhoto(index) ==
    /\ FormShown
    /\ index \in 1..Len(formData.photos)
    /\ PhotoEvents < MaxPhotoEvents
    /\ formData' = [formData EXCEPT !.photos = FilterOutIndex(formData.photos, index)]
    /\ calls' = Append(calls, [op |-> "photoRemoved", index |-> index])
    /\ UNCHANGED <<formLoading, error, success, submits, submitted,
                   storeVars, analyticsVars, listVars, dashVars>>

\* The call the handler issues next for its snapshot of the form: the upload
\* of photo k while k is within the photos, the insert after the last photo.
IssueNext(h, k, urls, t) ==
    IF k <= Len(h.form.photos)
    THEN [h EXCEPT !.k = k, !.photoUrls = urls, !.fileName = FileName(t, h.form.photos[k])]
    ELSE [h EXCEPT !.k = k, !.photoUrls = urls, !.fileName = <<>>]

CallOf(h) ==
    IF h.k <= Len(h.form.photos)
    THEN [op |-> "upload", sub |-> h.id, photo |-> h.k, name |-> h.fileName]
    ELSE [op |-> "insert", sub |-> h.id, record |-> InsertPayload(h.form, h.photoUrls)]

\* handleSubmit up to its first await: setLoading(true), setError(null), and
\* the first upload (or the insert when no photo is attached) is issued.
HandleSubmit ==
    /\ FormShown
    /\ ~formLoading
    /\ RequiredFilled(formData)
    /\ submitted < MaxSubmits
    /\ LET h0 == [id |-> submitted + 1, form |-> formData, k |-> 1,
                  photoUrls |-> <<>>, fileName |-> <<>>, live |-> TRUE]
           h == IssueNext(h0, 1, <<>>, now)
       IN  /\ submits' = submits \cup {h}
           /\ calls' = calls \o <<[op |-> "submit", sub |-> h.id, form |-> formData], CallOf(h)>>
    /\ submitted' = submitted + 1
    /\ formLoading' = TRUE
    /\ error' = NullMessage
    /\ UNCHANGED <<formData, success, storeVars, analyticsVars, listVars, dashVars>>

\* Variant: the loop steps over the photo after the one uploaded.
UploadOk_SkipsPhoto(h) ==
    /\ h.k <= Len(h.form.photos)
    /\ \A i \in 1..Len(bucket) : bucket[i] # h.fileName
    /\ bucket' = Append(bucket, h.fileName)
    /\ LET n == IssueNext(h, h.k + 2, Append(h.photoUrls, PublicUrl(h.fileName)), now)
       IN  /\ submits' = (submits \ {h}) \cup {n}
           /\ calls' = Append(calls, CallOf(n))
    /\ UNCHANGED <<db, now, nextId, formData, formLoading, error, success, submitted,
                   analyticsVars, listVars, dashVars>>

\* An upload succeeded: the object is stored under its name (an existing name
\* is refused), its public URL is pushed, and the next call is issued.
UploadOk(h) ==
    /\ h.k <= Len(h.form.photos)
    /\ \A i \in 1..Len(bucket) : bucket[i] # h.fileName
    /\ bucket' = Append(bucket, h.fileName)
    /\ LET n == IssueNext(h, h.k + 1, Append(h.photoUrls, PublicUrl(h.fileName)), now)
       IN  /\ submits' = (submits \ {h}) \cup {n}
           /\ calls' = Append(calls, CallOf(n))
    /\ UNCHANGED <<db, now, nextId, formData, formLoading, error, success, submitted,
                   analyticsVars, listVars, dashVars>>

\* Variant: a failed upload is skipped and the handler goes on to the next call.
UploadErr_Continue(h) ==
    /\ h.k <= Len(h.form.photos)
    /\ LET n == IssueNext(h, h.k + 1, h.photoUrls, now)
       IN  /\ submits' = (submits \ {h}) \cup {n}
           /\ calls' = calls \o <<[op |-> "uploadFailed", sub |-> h.id, photo |-> h.k], CallOf(n)>>
    /\ error' = IF h.live THEN "upload failed" ELSE error
    /\ UNCHANGED <<formData, formLoading, success, submitted,
                   storeVars, analyticsVars, listVars, dashVars>>

\* Variant: the catch block removes the objects the handler has uploaded.
UploadErr_Cleanup(h) ==
    /\ h.k <= Len(h.form.photos)
    /\ submits' = submits \ {h}
    /\ calls' = Append(calls, [op |-> "uploadFailed", sub |-> h.id, photo |-> h.k])
    /\ bucket' = SelectSeq(bucket, LAMBDA name :
                      \A j \in 1..Len(h.photoUrls) : h.photoUrls[j].name # name)
    /\ error' = IF h.live THEN "upload failed" ELSE error
    /\ formLoading' = IF h.live THEN FALSE ELSE formLoading
    /\ UNCHANGED <<db, now, nextId, formData, success, submitted,
                   analyticsVars, listVars, dashVars>>

\* An upload failed: throw, setError(error.message), setLoading(false).  The
\* setters of an unmounted form instance have no effect.
UploadErr(h) ==
    /\ h.k <= Len(h.form.photos)
    /\ submits' = submits \ {h}
    /\ calls' = Append(calls, [op |-> "uploadFailed", sub |-> h.id, photo |-> h.k])
    /\ error' = IF h.live THEN "upload failed" ELSE error
    /\ formLoading' = IF h.live THEN FALSE ELSE formLoading
    /\ UNCHANGED <<formData, success, submitted, storeVars, analyticsVars, listVars, dashVars>>

\* The insert succeeded: the row exists, setSuccess(true), the 2 s timer that
\* calls onBack is started, setLoading(false).
InsertOk(h) ==
    /\ h.k > Len(h.form.photos)
    /\ db' = <<StoredRow(InsertPayload(h.form, h.photoUrls), nextId, now)>> \o db
    /\ nextId' = nextId + 1
    /\ submits' = submits \ {h}
    /\ calls' = Append(calls, [op |-> "inserted", sub |-> h.id, id |-> nextId])
    /\ success' = IF h.live THEN TRUE ELSE success
    /\ timers' = timers + 1
    /\ formLoading' = IF h.live THEN FALSE ELSE formLoading
    /\ UNCHANGED <<bucket, now, formData, error, submitted, currentView, session,
                   analyticsVars, listVars>>

\* Variant: the loading flag is not reset when the insert fails.
InsertErr_KeepsLoading(h) ==
    /\ h.k > Len(h.form.photos)
    /\ submits' = submits \ {h}
    /\ calls' = Append(calls, [op |-> "insertFailed", sub |-> h.id])
    /\ error' = IF h.live THEN "insert failed" ELSE error
    /\ UNCHANGED <<formData, formLoading, success, submitted,
                   storeVars, analyticsVars, listVars, dashVars>>

\* Variant: the catch block only logs the error.
InsertErr_Silent(h) ==
    /\ h.k > Len(h.form.photos)
    /\ submits' = submits \ {h}
    /\ calls' = Append(calls, [op |-> "insertFailed", sub |-> h.id])
    /\ formLoading' = IF h.live THEN FALSE ELSE formLoading
    /\ UNCHANGED <<formData, error, success, submitted,
                   storeVars, analyticsVars, listVars, dashVars>>

\* The insert failed: no row, setError(error.message), setLoading(false).
InsertErr(h) ==
    /\ h.k > Len(h.form.photos)
    /\ submits' = submits \ {h}
    /\ calls' = Append(calls, [op |-> "insertFailed", sub |-> h.id])
    /\ error' = IF h.live THEN "insert failed" ELSE error
    /\ formLoading' = IF h.live THEN FALSE ELSE formLoading
    /\ UNCHANGED <<formData, success, submitted, storeVars, analyticsVars, listVars, dashVars>>

(***************************************************************************)
(* Dashboard: the active view.  renderContent mounts the component of the  *)
(* active view and unmounts the component of the previous one.  The state  *)
(* of a component that is not mounted is held at the values its next mount *)
(* starts from.  A fetch in flight of an unmounted component is dropped:   *)
(* its select changes nothing in the store and its setters have no effect. *)
(* A delete or a submission in flight goes on against the store.           *)
(***************************************************************************)
Views == {"dashboard", "capture", "data", "analytics", "profile"}

\* CaptureForm when the view changes to v.
FormSwitch(v) ==
    IF currentView = "capture"
    THEN /\ formData' = InitialFormData
         /\ formLoading' = FALSE
         /\ error' = NullMessage
         /\ success' = FALSE
         /\ submits' = {[h EXCEPT !.live = FALSE] : h \in submits}
         /\ UNCHANGED <<calls, submitted>>
    ELSE UNCHANGED formVars

\* DataList when the view changes to v; its mount issues fetchCaptures().
ListSwitch(v) ==
    IF currentView = "data"
    THEN /\ captures' = <<>>
         /\ listLoading' = TRUE
         /\ searchTerm' = <<>>
         /\ statusFilter' = "all"
         /\ selectedCapture' = Null
         /\ lReqs' = {[r EXCEPT !.live = FALSE] : r \in {q \in lReqs : q.op = "delete"}}
         /\ UNCHANGED <<lIssued, lCalls>>
    ELSE IF v = "data"
    THEN /\ lReqs' = lReqs \cup {NewListFetch(lIssued + 1)}
         /\ lIssued' = lIssued + 1
         /\ lCalls' = Append(lCalls, [op |-> "fetch", req |-> lIssued + 1, cause |-> "mount"])
         /\ UNCHANGED <<captures, listLoading, searchTerm, statusFilter, selectedCapture>>
    ELSE UNCHANGED listVars

\* Analytics when the view changes to v; its mount issues fetchAnalytics().
AnalyticsSwitch(v) ==
    IF currentView = "analytics"
    THEN /\ timeRange' = <<"3", "0">>
         /\ analyticsData' = Null
         /\ analyticsLoading' = TRUE
         /\ aFetches' = {}
         /\ aLast' = Null
         /\ aDone' = <<>>
         /\ UNCHANGED aIssued
    ELSE IF v = "analytics"
    THEN /\ aFetches' = {NewFetch(aIssued + 1, timeRange)}
         /\ aIssued' = aIssued + 1
         /\ UNCHANGED <<timeRange, analyticsData, analyticsLoading, aLast, aDone>>
    ELSE UNCHANGED analyticsVars

\* setCurrentView(v) and the render that follows.
SetCurrentView(v) ==
    /\ currentView' = v
    /\ IF v = currentView
       THEN UNCHANGED <<formVars, listVars, analyticsVars>>
       ELSE FormSwitch(v) /\ ListSwitch(v) /\ AnalyticsSwitch(v)
    /\ UNCHANGED <<storeVars, session>>

\* Variant: leaving a view clears the pending timers.
Navigate_CancelsTimer(v) ==
    /\ Rendered = "Dashboard"
    /\ v # currentView
    /\ v = "data" => lIssued < MaxListReqs
    /\ v = "analytics" => aIssued < MaxFetches
    /\ SetCurrentView(v)
    /\ timers' = 0

\* A button of the sidebar, or onCapture of the home view.
Navigate(v) ==
    /\ Rendered = "Dashboard"
    /\ v # currentView
    /\ v = "data" => lIssued < MaxListReqs
    /\ v = "analytics" => aIssued < MaxFetches
    /\ SetCurrentView(v)
    /\ UNCHANGED timers

\* The provider hands HomePage another loading flag or user.  When the
\* Dashboard is no longer rendered it is unmounted with the component of its
\* active view, and its next mount starts from the home view.
SessionChange(s) ==
    /\ s # session
    /\ session' = s
    /\ IF Rendered = "Dashboard" /\ HomePage(s.user, s.loading) # "Dashboard"
          /\ currentView # "dashboard"
       THEN /\ currentView' = "dashboard"
            /\ FormSwitch("dashboard") /\ ListSwitch("dashboard") /\ AnalyticsSwitch("dashboard")
       ELSE UNCHANGED <<currentView, formVars, listVars, analyticsVars>>
    /\ UNCHANGED <<storeVars, timers>>

\* The Back and Cancel buttons of the form: onBack().
OnBack ==
    /\ FormShown
    /\ SetCurrentView("dashboard")
    /\ UNCHANGED timers

\* Variant: the callback activates the listing view.
TimerFire_ToListing ==
    /\ timers > 0
    /\ timers' = timers - 1
    /\ SetCurrentView("data")

\* The callback of setTimeout(() => { onBack() }, 2000) runs.
TimerFire ==
    /\ timers > 0
    /\ timers' = timers - 1
    /\ SetCurrentView("dashboard")

\* Fields edited while a filled form is submitted.
SubmitFields == {"title", "temperature"}

\* Forms as the user filled them before submitting: every field filled, only
\* the required fields filled, and the title missing.
FilledForm ==
    [ title |-> <<"S", "i">>, description |-> "d", location |-> <<"L", "x">>,
      date |-> "2024-02-04", time |-> "10:00",
      temperature |-> <<"2", "0">>, humidity |-> <<"6", "5">>, windSpeed |-> <<"1", "2">>,
      waterLevel |-> <<"3">>, waterQuality |-> "good", observations |-> "o", photos |-> <<>> ]

RequiredOnlyForm ==
    [InitialFormData EXCEPT !.title = <<"S", "i">>, !.location = <<"L", "x">>]

UntitledForm == [FilledForm EXCEPT !.title = <<>>]

FormInputs ==
    { [f EXCEPT !.photos = ps] :
        <<f, ps>> \in {FilledForm, RequiredOnlyForm, UntitledForm} \X SeqsUpTo(Files, MaxPhotos) }

InitialStore == <<BaseRecord(1, Recent)>>

\* The entry form, filled, under edits and submissions.
InitSubmit ==
    /\ StoreInit(InitialStore)
    /\ AnalyticsIdle
    /\ ListIdle
    /\ \E f \in FormInputs : formData = f
    /\ formLoading = FALSE
    /\ error = NullMessage
    /\ success = FALSE
    /\ submits = {}
    /\ calls = <<>>
    /\ submitted = 0
    /\ currentView = "capture"
    /\ timers = 0
    /\ session = SignedIn

NextSubmit ==
    \/ Tick
    \/ \E field \in SubmitFields : \E value \in EditValues(field) : HandleInputChange(field, value)
    \/ HandleSubmit
    \/ \E h \in submits : UploadOk(h)
    \/ \E h \in submits : UploadErr(h)
    \/ \E h \in submits : InsertOk(h)
    \/ \E h \in submits : InsertErr(h)

SpecSubmit == InitSubmit /\ [][NextSubmit]_vars

\* The entry form under navigation: leaving the form while a submission is
\* in flight, the timer of a successful submission, and opening the form again.
NavViews == {"dashboard", "capture"}
NavFields == {"title", "location"}
NavForms == { [FilledForm EXCEPT !.photos = ps] : ps \in {<<>>, <<"a.png">>, <<"b.png", "a.png">>} }

InitNav ==
    /\ StoreInit(InitialStore)
    /\ AnalyticsIdle
    /\ ListIdle
    /\ \E f \in NavForms : formData = f
    /\ formLoading = FALSE
    /\ error = NullMessage
    /\ success = FALSE
    /\ submits = {}
    /\ calls = <<>>
    /\ submitted = 0
    /\ currentView = "capture"
    /\ timers = 0
    /\ session = SignedIn

NextNav ==
    \/ \E field \in NavFields : \E value \in EditValues(field) : HandleInputChange(field, value)
    \/ HandleSubmit
    \/ \E h \in submits : UploadOk(h)
    \/ \E h \in submits : UploadErr(h)
    \/ \E h \in submits : InsertOk(h)
    \/ \E h \in submits : InsertErr(h)
    \/ OnBack
    \/ TimerFire
    \/ \E v \in NavViews : Navigate(v)

SpecNav == InitNav /\ [][NextNav]_vars

\* The event loop runs a pending timer callback.
SpecNavFair == SpecNav /\ WF_vars(TimerFire)

\* The entry form while photos are attached and removed and fields edited.
InitPhotos ==
    /\ StoreInit(InitialStore)
    /\ AnalyticsIdle
    /\ ListIdle
    /\ \E f \in NavForms : formData = f
    /\ formLoading = FALSE
    /\ error = NullMessage
    /\ success = FALSE
    /\ submits = {}
    /\ calls = <<>>
    /\ submitted = 0
    /\ currentView = "capture"
    /\ timers = 0
    /\ session = SignedIn

NextPhotos ==
    \/ \E files \in SeqsUpTo(Files, MaxPhotos) : HandleFileUpload(files)
    \/ \E index \in 1..MaxPhotos : RemovePhoto(index)
    \/ \E value \in EditValues("title") : HandleInputChange("title", value)

SpecPhotos == InitPhotos /\ [][NextPhotos]_vars

\* The page from its first render: the session changes at any time, and the
\* sidebar is used while the Dashboard is rendered.
InitSession ==
    /\ StoreInit(InitialStore)
    /\ AnalyticsIdle
    /\ ListIdle
    /\ FormIdle
    /\ currentView = "dashboard"
    /\ timers = 0
    /\ session = [loading |-> TRUE, user |-> NoUser]

NextSession ==
    \/ \E s \in SessionStates : SessionChange(s)
    \/ \E v \in Views : Navigate(v)
    \/ \E r \in lReqs : ListSelect(r)
    \/ \E r \in lReqs : FetchCapturesOk(r)
    \/ \E f \in aFetches : AnalyticsSelect(f)
    \/ \E f \in aFetches : FetchAnalyticsOk(f)

SpecSession == InitSession /\ [][NextSession]_vars

\* The filled form submitted, and the sidebar used at any time afterwards:
\* every view can be activated while the submission or its timer is pending.
InitTimer ==
    /\ StoreInit(InitialStore)
    /\ AnalyticsIdle
    /\ ListIdle
    /\ formData = FilledForm
    /\ formLoading = FALSE
    /\ error = NullMessage
    /\ success = FALSE
    /\ submits = {}
    /\ calls = <<>>
    /\ submitted = 0
    /\ currentView = "capture"
    /\ timers = 0
    /\ session = SignedIn

NextTimer ==
    \/ HandleSubmit
    \/ \E h \in submits : InsertOk(h)
    \/ \E h \in submits : InsertErr(h)
    \/ OnBack
    \/ TimerFire
    \/ \E v \in Views : Navigate(v)
    \/ \E r \in lReqs : ListSelect(r)
    \/ \E r \in lReqs : FetchCapturesOk(r)
    \/ \E f \in aFetches : AnalyticsSelect(f)
    \/ \E f \in aFetches : FetchAnalyticsOk(f)

SpecTimer == InitTimer /\ [][NextTimer]_vars

SpecTimerFair == SpecTimer /\ WF_vars(TimerFire)

(***************************************************************************)
(* The application: the dashboard with its views, entered at the home view. *)
(* The user fills and submits the form, then visits the listing, deletes   *)
(* rows there, and visits the aggregation view; a view is left by the      *)
(* sidebar only when none of its calls is in flight (the form is also left *)
(* by its own buttons and by the timer at any time).                       *)
(***************************************************************************)
AppTour ==
    { <<"dashboard", "capture">>, <<"capture", "data">>, <<"dashboard", "data">>,
      <<"data", "analytics">>, <<"analytics", "profile">> }

Quiescent == submits = {} /\ lReqs = {} /\ aFetches = {}

InitApp ==
    /\ \E content \in {c \in DeleteInputs : Len(c) = 1} : StoreInit(content)
    /\ AnalyticsIdle
    /\ ListIdle
    /\ FormIdle
    /\ currentView = "dashboard"
    /\ timers = 0
    /\ session = SignedIn

NextApp ==
    \/ \E v \in Views : <<currentView, v>> \in AppTour /\ Quiescent /\ Navigate(v)
    \/ OnBack
    \/ TimerFire
    \/ \E field \in NavFields : \E value \in EditValues(field) \ {<<>>} :
            HandleInputChange(field, value)
    \/ HandleSubmit
    \/ \E h \in submits : InsertOk(h)
    \/ \E h \in submits : InsertErr(h)
    \/ \E r \in lReqs : ListSelect(r)
    \/ \E r \in lReqs : FetchCapturesOk(r)
    \/ \E r \in lReqs : FetchCapturesErr(r)
    \/ \E id \in Ids(captures) : lReqs = {} /\ HandleDelete(id, TRUE)
    \/ \E r \in lReqs : DeleteExec(r)
    \/ \E r \in lReqs : DeleteOk(r)
    \/ \E r \in lReqs : DeleteErr(r)
    \/ \E f \in aFetches : AnalyticsSelect(f)
    \/ \E f \in aFetches : FetchAnalyticsOk(f)
    \/ \E f \in aFetches : FetchAnalyticsErr(f)

SpecApp == InitApp /\ [][NextApp]_vars

(***************************************************************************)
(* The two fetching views, each from its activation: the listing under     *)
(* deletes, selection and a filter, the aggregation view under selector    *)
(* changes.                                                                *)
(***************************************************************************)
InitViews ==
    /\ \E content \in DeleteInputs : StoreInit(content)
    /\ FormIdle
    /\ timers = 0
    /\ session = SignedIn
    /\ \/ ListMounted /\ AnalyticsIdle /\ currentView = "data"
       \/ AnalyticsMounted /\ ListIdle /\ currentView = "analytics"

NextViews ==
    \/ \E r \in lReqs : ListSelect(r)
    \/ \E r \in lReqs : FetchCapturesOk(r)
    \/ \E r \in lReqs : FetchCapturesErr(r)
    \/ \E v \in DeleteFilters : SetStatusFilter(v)
    \/ \E c \in {Null} \cup {captures[i] : i \in 1..Len(captures)} : SetSelectedCapture(c)
    \/ \E id \in Ids(captures) : \E answer \in BOOLEAN : lReqs = {} /\ HandleDelete(id, answer)
    \/ \E r \in lReqs : DeleteExec(r)
    \/ \E r \in lReqs : DeleteOk(r)
    \/ \E r \in lReqs : DeleteErr(r)
    \/ \E v \in TimeRanges : SetTimeRange(v)
    \/ \E f \in aFetches : AnalyticsSelect(f)
    \/ \E f \in aFetches : FetchAnalyticsOk(f)
    \/ \E f \in aFetches : FetchAnalyticsErr(f)

SpecViews == InitViews /\ [][NextViews]_vars

(***************************************************************************)
(* Properties of the aggregation.  They are stated over the rows, window   *)
(* and instant recorded in aLast, with the window and the numeric strings  *)
(* characterised independently of the operators above.                     *)
(***************************************************************************)
Computed == analyticsData # Null

\* The day count of each selectable window.
WindowDays(tr) ==
    CASE tr = <<"7">> -> 7 [] tr = <<"3", "0">> -> 30
      [] tr = <<"9", "0">> -> 90 [] tr = <<"3", "6", "5">> -> 365

\* Indices of the fetched rows created at most WindowDays before the computation.
InWindowIdx ==
    {i \in 1..Len(aLast.data) :
        aLast.at - aLast.data[i].created_at <= WindowDays(aLast.timeRange) * HoursPerDay}

\* A numeric string: a non-empty run of decimal digits.
IsNumeral(v) == v # <<>> /\ \A i \in 1..Len(v) : v[i] \in Digits

RECURSIVE NumeralValue(_)
NumeralValue(v) ==
    IF v = <<>> THEN 0 ELSE DigitVal(Head(v)) * 10 ^ (Len(v) - 1) + NumeralValue(Tail(v))

FieldOf(r, f) ==
    CASE f = "temperature" -> r.data.temperature [] f = "humidity" -> r.data.humidity
      [] f = "windSpeed" -> r.data.windSpeed [] f = "waterLevel" -> r.data.waterLevel

AverageOf(f) ==
    CASE f = "temperature" -> analyticsData.averageTemperature
      [] f = "humidity" -> analyticsData.averageHumidity
      [] f = "windSpeed" -> analyticsData.averageWindSpeed
      [] f = "waterLevel" -> analyticsData.averageWaterLevel

NumeralIdx(f) == {i \in InWindowIdx : IsNumeral(FieldOf(aLast.data[i], f))}

RECURSIVE SumOver(_, _)
SumOver(I, f) ==
    IF I = {} THEN 0
    ELSE LET i == CHOOSE j \in I : TRUE
         IN  NumeralValue(FieldOf(aLast.data[i], f)) + SumOver(I \ {i}, f)

\* C1: in every computed result the counts of capturesByStatus add up to
\* totalCaptures, and every status group listed is non-empty.
Thm_C1_StatusCountsSumToTotal ==
    Computed =>
        /\ SeqSum(ObjectValues(analyticsData.capturesByStatus)) = analyticsData.totalCaptures
        /\ \A i \in 1..Len(analyticsData.capturesByStatus) :
              analyticsData.capturesByStatus[i][2] >= 1

Wit_C1_TwoStatusGroups ==
    /\ Computed
    /\ Len(analyticsData.capturesByStatus) >= 2
    /\ analyticsData.totalCaptures = 3
    /\ Len(aLast.data) = 3

\* C2: for each numeric field the average is the sum of the numeric-string
\* values of the in-window records divided by the number of such records; a
\* non-numeric string adds nothing to the sum nor to the denominator.
Cex_C2_NonNumericExcluded ==
    Computed =>
        \A f \in NumericFields :
            Cardinality(NumeralIdx(f)) > 0 =>
                AverageOf(f) = Quotient(SumOver(NumeralIdx(f), f), Cardinality(NumeralIdx(f)))

\* C3: a field with no numeric-string value among the in-window records
\* (the empty window included) has average exactly 0.
Thm_C3_EmptyMeanIsZero ==
    Computed =>
        \A f \in NumericFields :
            NumeralIdx(f) = {} => AverageOf(f) = [num |-> 0, den |-> 1]

Wit_C3_OnlyInvalidValues ==
    /\ Computed
    /\ \E f \in NumericFields :
          /\ NumeralIdx(f) = {}
          /\ \E i \in InWindowIdx : FieldOf(aLast.data[i], f) = <<"b", "a", "d">>
          /\ \E i \in InWindowIdx : FieldOf(aLast.data[i], f) = <<>>
          /\ AverageOf(f) = [num |-> 0, den |-> 1]

\* Number of in-window rows whose location is l.
LocationCount(l) == Cardinality({i \in InWindowIdx : aLast.data[i].data.location = l})

\* The non-empty locations of the in-window rows.
WindowLocations == {aLast.data[i].data.location : i \in InWindowIdx} \ {<<>>}

ListedLocations ==
    {analyticsData.topLocations[i].location : i \in 1..Len(analyticsData.topLocations)}

QualityCount(q) == Cardinality({i \in InWindowIdx : aLast.data[i].data.waterQuality = q})

\* C21: the water-quality distribution has exactly one entry for each of the
\* five categories that occurs among the in-window rows, with the number of
\* those rows as its count, and no entry for anything else; its counts add up
\* to at most totalCaptures.
Cex_C21_OnlyValidCategories ==
    Computed =>
        LET dist == analyticsData.waterQualityDistribution
        IN  /\ \A i \in 1..Len(dist) :
                  /\ dist[i][1] \in WaterQualities
                  /\ dist[i][2] = QualityCount(dist[i][1])
            /\ \A i, j \in 1..Len(dist) : dist[i][1] = dist[j][1] => i = j
            /\ \A q \in WaterQualities :
                  QualityCount(q) > 0 => \E i \in 1..Len(dist) : dist[i][1] = q
            /\ SeqSum(ObjectValues(dist)) <= analyticsData.totalCaptures

\* The day, counted from 2023-01-01, on which each month of 2023 and 2024 begins.
MonthStarts ==
    << 0, 31, 59, 90, 120, 151, 181, 212, 243, 273, 304, 334,
       365, 396, 425, 456, 486, 517, 547, 578, 609, 639, 670, 700 >>

\* The month of an instant, numbered from January 2023, and the label of a month.
MonthNo(t) == Cardinality({k \in 1..Len(MonthStarts) : MonthStarts[k] * HoursPerDay <= t})
LabelOfMonth(n) == <<MonthNames[((n - 1) % 12) + 1], 2023 + ((n - 1) \div 12)>>

MonthCount(n) == Cardinality({i \in InWindowIdx : MonthNo(aLast.data[i].created_at) = n})

\* C22: capturesByMonth has one group for each month-and-year in which an
\* in-window row was created and no other group; the count of a group is the
\* number of in-window rows created in that month of that year, so every
\* in-window row is counted in exactly one group and the counts add up to
\* totalCaptures.
Thm_C22_MonthGroups ==
    Computed =>
        LET byMonth == analyticsData.capturesByMonth
        IN  /\ SeqSum(ObjectValues(byMonth)) = analyticsData.totalCaptures
            /\ \A i, j \in 1..Len(byMonth) : byMonth[i][1] = byMonth[j][1] => i = j
            /\ \A k \in 1..Len(byMonth) :
                  \E n \in 1..Len(MonthStarts) :
                      /\ byMonth[k][1] = LabelOfMonth(n)
                      /\ byMonth[k][2] = MonthCount(n)
                      /\ byMonth[k][2] >= 1
            /\ \A i \in InWindowIdx :
                  \E k \in 1..Len(byMonth) :
                      byMonth[k][1] = LabelOfMonth(MonthNo(aLast.data[i].created_at))

\* Rows created in February 2023 and in February 2024 are in the window and
\* counted in two groups, a third row in another month.
Wit_C22_SameMonthTwoYears ==
    /\ Computed
    /\ analyticsData.totalCaptures = 3
    /\ Len(analyticsData.capturesByMonth) = 3
    /\ \E i, j \in 1..3 :
          /\ analyticsData.capturesByMonth[i][1] = <<"Feb", 2023>>
          /\ analyticsData.capturesByMonth[j][1] = <<"Feb", 2024>>

\* Position, in the fetched sequence, of the first in-window row with location l.
FirstIdx(l) ==
    CHOOSE i \in InWindowIdx :
        /\ aLast.data[i].data.location = l
        /\ \A j \in InWindowIdx : aLast.data[j].data.location = l => i <= j

IsNumeralName(l) == IsNumeral(l) /\ (Len(l) = 1 \/ l[1] # "0")

\* The order in which the keys of the counts object are listed: numeral names
\* first, by increasing value, then the other names by first occurrence.
ListedBefore(a, b) ==
    IF IsNumeralName(a) /\ IsNumeralName(b) THEN NumeralValue(a) < NumeralValue(b)
    ELSE IF IsNumeralName(a) \/ IsNumeralName(b) THEN IsNumeralName(a)
    ELSE FirstIdx(a) < FirstIdx(b)

Cex_C28_PeakIsCount ==
    Computed =>
        LET peak == PeakMonthlyCaptures(analyticsData)
            byMonth == analyticsData.capturesByMonth
        IN  /\ ~peak.infinite
            /\ peak.val >= 0
            /\ peak.val <= analyticsData.totalCaptures
            /\ \A k \in 1..Len(byMonth) : byMonth[k][2] <= peak.val
            /\ byMonth # <<>> => \E k \in 1..Len(byMonth) : byMonth[k][2] = peak.val

\* C5: totalCaptures is the number of fetched rows created at most N days
\* before the instant of the computation, N being the window of the fetch;
\* a row exactly N days old is counted, an older one is not.
Thm_C5_WindowFilter ==
    Computed => analyticsData.totalCaptures = Cardinality(InWindowIdx)

Wit_C5_TwoOfThreeInSevenDays ==
    /\ Computed
    /\ aLast.timeRange = <<"7">>
    /\ Len(aLast.data) = 3
    /\ analyticsData.totalCaptures = 2
    /\ \E i \in 1..3 : aLast.at - aLast.data[i].created_at = 7 * HoursPerDay
    /\ \E i \in 1..3 : aLast.at - aLast.data[i].created_at = 7 * HoursPerDay + 1

(***************************************************************************)
(* Properties of the listing's filters.                                    *)
(***************************************************************************)
\* Two characters that are the same letter up to case.
CasePairs == { <<"A", "a">>, <<"B", "b">>, <<"L", "l">>, <<"P", "p">>, <<"S", "s">> }
SameLetter(c, d) == c = d \/ <<c, d>> \in CasePairs \/ <<d, c>> \in CasePairs

\* term occurs in text at some offset, letters compared up to case.
OccursIn(term, text) ==
    \E k \in 0..(Len(text) - Len(term)) :
        \A i \in 1..Len(term) : SameLetter(term[i], text[k + i])

\* The rows shown, and the indices of the fetched rows that satisfy P.
Displayed == filteredCaptures
KeptIdx(P(_)) == {i \in 1..Len(captures) : P(captures[i])}

\* The subsequence of cs at the indices in I, in order.
RECURSIVE Pick(_, _)
Pick(cs, I) ==
    IF cs = <<>> THEN <<>>
    ELSE Pick(SubSeq(cs, 1, Len(cs) - 1), I) \o
         (IF Len(cs) \in I THEN <<cs[Len(cs)]>> ELSE <<>>)

Loaded == ~listLoading /\ captures # <<>>

\* C6: under a status filter other than "all" every row shown has that
\* status, whatever the search term; with an empty search term the rows shown
\* are all the fetched rows of that status, and under "all" every fetched row.
Thm_C6_StatusFilter ==
    /\ statusFilter # "all" =>
          \A i \in 1..Len(Displayed) : Displayed[i].status = statusFilter
    /\ searchTerm = <<>> =>
          /\ statusFilter = "all" => Displayed = captures
          /\ statusFilter # "all" =>
                LET Same(c) == c.status = statusFilter
                IN  Displayed = Pick(captures, KeptIdx(Same))

Wit_C6_StatusSelected ==
    /\ Loaded
    /\ searchTerm = <<>>
    /\ statusFilter = "draft"
    /\ Len(Displayed) = 2
    /\ Len(captures) = 3

\* C7: with the status filter "all", a row is shown exactly when the search
\* term occurs, letters compared up to case, in its title or in its location;
\* the empty term shows every row.
Thm_C7_SearchFilter ==
    statusFilter = "all" =>
        LET Hit(c) == OccursIn(searchTerm, c.title) \/ OccursIn(searchTerm, c.data.location)
        IN  /\ Displayed = Pick(captures, KeptIdx(Hit))
            /\ searchTerm = <<>> => Displayed = captures

\* A term in upper case matches one row by its title only and another by its
\* location only, and leaves a third row out.
Wit_C7_TitleOrLocation ==
    /\ Loaded
    /\ statusFilter = "all"
    /\ searchTerm = <<"B", "a">>
    /\ Len(captures) = 3
    /\ Len(Displayed) = 2
    /\ \E i \in 1..2 : /\ OccursIn(searchTerm, Displayed[i].title)
                       /\ ~OccursIn(searchTerm, Displayed[i].data.location)
    /\ \E i \in 1..2 : /\ ~OccursIn(searchTerm, Displayed[i].title)
                       /\ OccursIn(searchTerm, Displayed[i].data.location)

\* C8: the rows shown are the fetched rows, in order, that pass the search
\* filter and the status filter; a step that changes either filter leaves the
\* fetched rows, the requests in flight and the store unchanged.
Shown_C8 ==
    LET Both(c) ==
            /\ OccursIn(searchTerm, c.title) \/ OccursIn(searchTerm, c.data.location)
            /\ statusFilter = "all" \/ c.status = statusFilter
    IN  Displayed = Pick(captures, KeptIdx(Both))

Thm_C8_FiltersCombineLocally ==
    [][ /\ Shown_C8
        /\ Shown_C8'
        /\ (searchTerm' # searchTerm \/ statusFilter' # statusFilter) =>
              /\ captures' = captures
              /\ lReqs' = lReqs
              /\ lIssued' = lIssued
              /\ db' = db ]_vars

\* A row passes the search filter but not the status filter, another the
\* status filter but not the search filter, and only a third is shown.
Wit_C8_BothFiltersActive ==
    /\ Loaded
    /\ Len(captures) = 3
    /\ searchTerm # <<>>
    /\ statusFilter # "all"
    /\ Len(Displayed) = 1
    /\ \E i \in 1..3 : /\ matchesSearch(captures[i], searchTerm)
                       /\ captures[i].status # statusFilter
    /\ \E i \in 1..3 : /\ ~matchesSearch(captures[i], searchTerm)
                       /\ captures[i].status = statusFilter

(***************************************************************************)
(* Properties of the entry form's submission, stated over the log of calls. *)
(***************************************************************************)
CallIdx(op) == {i \in 1..Len(calls) : calls[i].op = op}

\* The form as it was when submission s started.
FormAt(s) == calls[CHOOSE i \in CallIdx("submit") : calls[i].sub = s].form

\* The names under which submission s uploaded, in the order of the calls.
UploadIdx(s) == {i \in CallIdx("upload") : calls[i].sub = s}
UploadNames(s) ==
    LET ups == Pick(calls, UploadIdx(s)) IN [k \in 1..Len(ups) |-> ups[k].name]

RowOf(id) == db[CHOOSE i \in 1..Len(db) : db[i].id = id]

\* The record passed to insert for the form f with the upload names ns.
CarriesForm(r, f, ns) ==
    /\ r.status = "draft"
    /\ r.title = f.title
    /\ r.description = f.description
    /\ r.data.location = f.location
    /\ r.data.date = f.date
    /\ r.data.time = f.time
    /\ r.data.temperature = f.temperature
    /\ r.data.humidity = f.humidity
    /\ r.data.windSpeed = f.windSpeed
    /\ r.data.waterLevel = f.waterLevel
    /\ r.data.waterQuality = f.waterQuality
    /\ r.data.observations = f.observations
    /\ Len(r.data.photoUrls) = Len(f.photos)
    /\ Len(ns) = Len(f.photos)
    /\ \A k \in 1..Len(f.photos) :
          /\ r.data.photoUrls[k].name = ns[k]
          /\ ns[k][2] = f.photos[k]
          /\ \E j \in 1..Len(bucket) : bucket[j] = ns[k]

\* C9: every record passed to insert, and every row created from it, has
\* status "draft", the field values the form had when it was submitted, and
\* one URL per attached photo, in the order of the photos, each naming the
\* object uploaded for that photo.
Thm_C9_InsertedRecord ==
    /\ \A i \in CallIdx("insert") :
          CarriesForm(calls[i].record, FormAt(calls[i].sub), UploadNames(calls[i].sub))
    /\ \A i \in CallIdx("inserted") :
          /\ \E j \in 1..Len(db) : db[j].id = calls[i].id
          /\ CarriesForm(RowOf(calls[i].id), FormAt(calls[i].sub), UploadNames(calls[i].sub))

Wit_C9_TwoPhotosInserted ==
    \E i \in CallIdx("inserted") :
        LET r == RowOf(calls[i].id)
        IN  /\ Len(r.data.photoUrls) = 2
            /\ FormAt(calls[i].sub).photos = <<"b.png", "a.png">>
            /\ r.data.temperature = <<"2", "0">>
            /\ r.data.humidity = <<"6", "5">>
            /\ r.data.observations = "o"

InitialRows == Len(InitialStore)

\* C10: after a failed upload or a failed insert of a submission no further
\* call is issued for it, and it creates no row: a failure on photo k leaves
\* exactly k upload calls and no insert call, and the store holds one row per
\* successful insert only.
Thm_C10_FailureAborts ==
    /\ \A i \in CallIdx("uploadFailed") \cup CallIdx("insertFailed") :
          \A j \in 1..Len(calls) : j > i => calls[j].sub # calls[i].sub
    /\ \A i \in CallIdx("uploadFailed") :
          /\ Cardinality(UploadIdx(calls[i].sub)) = calls[i].photo
          /\ \A j \in CallIdx("insert") : calls[j].sub # calls[i].sub
    /\ Len(db) = InitialRows + Cardinality(CallIdx("inserted"))
    /\ \A j \in 1..Len(db) :
          db[j].id > InitialRows =>
              \E i \in CallIdx("inserted") :
                  /\ calls[i].id = db[j].id
                  /\ \A e \in CallIdx("uploadFailed") \cup CallIdx("insertFailed") :
                        calls[e].sub # calls[i].sub

\* The first of two uploads failed and the handler has ended.
Wit_C10_FirstUploadFailed ==
    /\ submits = {}
    /\ \E i \in CallIdx("uploadFailed") :
          /\ calls[i].photo = 1
          /\ Len(FormAt(calls[i].sub).photos) = 2
    /\ Len(db) = InitialRows
    /\ error = "upload failed"

(***************************************************************************)
(* Properties of the entry form's outcome and of the return from the form. *)
(***************************************************************************)
\* The step in which the insert of handler h is answered with success.
InsertSucceeds(h) ==
    /\ h.k > Len(h.form.photos)
    /\ calls' = Append(calls, [op |-> "inserted", sub |-> h.id, id |-> nextId])

\* The step in which a call of handler h is answered with a failure.
CallFails(h) ==
    \/ calls' = Append(calls, [op |-> "uploadFailed", sub |-> h.id, photo |-> h.k])
    \/ calls' = Append(calls, [op |-> "insertFailed", sub |-> h.id])

FailureMessage(log) ==
    IF log[Len(log)].op = "uploadFailed" THEN "upload failed" ELSE "insert failed"

Submissions == {calls[i].sub : i \in CallIdx("submit")}

InBucket(name) == \E j \in 1..Len(bucket) : bucket[j] = name

\* The upload calls of submission s, in the order they were issued.
UploadCalls(s) == Pick(calls, UploadIdx(s))

InsertIdx(s) == {i \in CallIdx("insert") : calls[i].sub = s}

\* C19: the upload calls of a submission are for its photos 1, 2, ... in
\* that order; when the call for photo k is issued the objects of the photos
\* before k are stored, so at most the last upload is in flight; an insert is
\* issued at most once, after the upload calls for all photos and with all
\* their objects stored; a submission that created a row issued exactly one.
Thm_C19_UploadsInOrderThenInsert ==
    \A s \in Submissions :
        LET ups == UploadCalls(s)
            photos == FormAt(s).photos
        IN  /\ Len(ups) <= Len(photos)
            /\ \A k \in 1..Len(ups) :
                  /\ ups[k].photo = k
                  /\ ups[k].name[2] = photos[k]
                  /\ k < Len(ups) => InBucket(ups[k].name)
            /\ Cardinality(InsertIdx(s)) <= 1
            /\ \A i \in InsertIdx(s) :
                  /\ Len(ups) = Len(photos)
                  /\ \A u \in UploadIdx(s) : u < i
                  /\ \A k \in 1..Len(ups) : InBucket(ups[k].name)
            /\ \A i \in CallIdx("inserted") :
                  calls[i].sub = s => Cardinality(InsertIdx(s)) = 1

\* A submission with two photos has issued its insert after both uploads.
Wit_C19_InsertAfterTwoUploads ==
    \E s \in Submissions :
        /\ FormAt(s).photos = <<"a.png", "b.png">>
        /\ Len(UploadCalls(s)) = 2
        /\ InsertIdx(s) # {}
        /\ Len(bucket) = 2
        /\ submits # {}

\* Names that the failed call at index e of the log left stored: those of the
\* photos before the failing one, or of all photos when the insert failed.
LeftStored(e) ==
    LET ups == UploadCalls(calls[e].sub)
        n == IF calls[e].op = "uploadFailed" THEN calls[e].photo - 1 ELSE Len(ups)
    IN  {ups[k].name : k \in 1..n}

Referenced == UNION { {db[i].data.photoUrls[k].name : k \in 1..Len(db[i].data.photoUrls)} :
                        i \in 1..Len(db) }

\* C20: no step removes an object from storage; the objects a failed
\* submission had uploaded stay stored, and no row of the store names them.
Thm_C20_UploadsOrphaned ==
    /\ [][ /\ Len(bucket') >= Len(bucket)
           /\ SubSeq(bucket', 1, Len(bucket)) = bucket ]_vars
    /\ [](\A e \in CallIdx("uploadFailed") \cup CallIdx("insertFailed") :
              \A name \in LeftStored(e) : InBucket(name) /\ name \notin Referenced)

\* The second of two uploads failed: the first object is stored and no row
\* was created.
Wit_C20_SecondUploadFailed ==
    /\ \E e \in CallIdx("uploadFailed") : calls[e].photo = 2
    /\ Len(bucket) = 1
    /\ Len(db) = InitialRows
    /\ submits = {}

\* C24: a pending timer is removed only by its callback running, and that
\* step makes 'dashboard' the active view whatever view was active; every
\* pending timer eventually runs.
Thm_C24_TimerOverridesNavigation ==
    /\ [][ timers' < timers => timers' = timers - 1 /\ currentView' = "dashboard" ]_vars
    /\ [][ (timers > 0 /\ currentView' # currentView /\ currentView' # "dashboard") =>
              timers' = timers ]_vars
    /\ \A v \in Views :
          (timers > 0 /\ currentView = v) ~> (timers = 0 /\ currentView = "dashboard")

\* The user went on to the listing after a successful submission, the
\* listing has loaded, and the timer is still pending.
Wit_C24_NavigatedAwayTimerPending ==
    /\ timers > 0
    /\ currentView = "data"
    /\ ~listLoading
    /\ CallIdx("inserted") # {}

\* The submissions in flight that the mounted form instance started.
LiveSubmits == {h \in submits : h.live}

InsertsOf(s, op) == {i \in CallIdx(op) : calls[i].sub = s}

Cex_C26_QuiescentListingIsStore ==
    ( /\ currentView = "data"
      /\ lReqs = {}
      /\ \A i \in 1..Len(lCalls) : lCalls[i].op \notin {"fetchFailed", "deleteFailed"} )
    => captures = db

\* The step logs a call with the operation op.
Logs(op) == Len(calls') = Len(calls) + 1 /\ calls'[Len(calls')].op = op

\* The step changes nothing of the form's state but the photo list.
OnlyPhotosChange ==
    /\ [formData' EXCEPT !.photos = formData.photos] = formData
    /\ UNCHANGED <<formLoading, error, success, submits, submitted, db, bucket>>

OkIdx == {i \in 1..Len(aDone) : aDone[i].ok}

\* The fetch that ended with rows last.
LastOk == aDone[CHOOSE i \in OkIdx : \A j \in OkIdx : j <= i]

\* C17: what is displayed is the result of the fetch that ended with rows
\* last, for the window that fetch was issued with, whichever fetch was
\* issued last and whatever the selector shows.
Thm_C17_LastCompletedWins ==
    /\ OkIdx = {} => analyticsData = Null
    /\ OkIdx # {} =>
          /\ Computed
          /\ aLast.timeRange = LastOk.timeRange
          /\ analyticsData.totalCaptures = Cardinality(InWindowIdx)

\* No fetch is pending; the fetch for "90" ended before the fetch for "7"
\* that was issued before it; the selector shows "90" and the analytics are
\* those of the 7-day window.
Wit_C17_StaleOverwrites ==
    /\ aFetches = {}
    /\ Len(aDone) = 3
    /\ OkIdx = {1, 2, 3}
    /\ aDone[2].id = 3
    /\ aDone[3].id = 2
    /\ aDone[3].timeRange = <<"7">>
    /\ timeRange = <<"9", "0">>
    /\ aLast.timeRange = <<"7">>
    /\ analyticsData.totalCaptures = 1

\* The step in which fetch f ends with rows.
EndsWithRows(f) == aDone' = Append(aDone, [id |-> f.id, timeRange |-> f.timeRange, ok |-> TRUE])

\* C18: a step changes the selector exactly when it issues a fetch, and it
\* issues one: a new request, not yet sent to the store, carrying the window
\* just selected; the first fetch carries the initial window.  A fetch that
\* ends with rows replaces the analytics by the aggregation of the rows the
\* store answered to that fetch, filtered by the window the fetch carries.
Thm_C18_OneFetchPerChange ==
    /\ [](/\ aIssued >= 1
          /\ \A f \in aFetches : f.id = 1 => f.timeRange = <<"3", "0">>
          /\ \A i \in 1..Len(aDone) : aDone[i].id = 1 => aDone[i].timeRange = <<"3", "0">>)
    /\ [][ /\ (timeRange' # timeRange) <=> (aIssued' # aIssued)
           /\ timeRange' # timeRange =>
                /\ aIssued' = aIssued + 1
                /\ aFetches' =
                      aFetches \cup {[id |-> aIssued', timeRange |-> timeRange',
                                      phase |-> "sent", data |-> <<>>]}
                /\ UNCHANGED <<analyticsData, aLast>>
           /\ \A f \in aFetches :
                EndsWithRows(f) =>
                    /\ aLast'.data = f.data
                    /\ aLast'.timeRange = f.timeRange
                    /\ analyticsData'.totalCaptures = Cardinality(InWindowIdx') ]_vars

\* The selector was changed to "7" and the fetch issued for it has ended:
\* one of the three rows is counted.
Wit_C18_RefetchedForSeven ==
    /\ aIssued = 2
    /\ aFetches = {}
    /\ OkIdx = {1, 2}
    /\ timeRange = <<"7">>
    /\ aLast.timeRange = <<"7">>
    /\ Len(aLast.data) = 3
    /\ analyticsData.totalCaptures = 1

\* The aggregation view stays mounted over a step.
StaysMounted == currentView = "analytics" /\ currentView' = "analytics"

\* C27: the loading flag is true until the first fetch of the view ends and
\* false from then on (a step of the mounted view never sets it again); a
\* change of the window leaves the analytics displayed as they are, and they
\* change only when a fetch ends with success.
Thm_C27_LoadingOnlyFirstFetch ==
    /\ [](analyticsLoading <=> aDone = <<>>)
    /\ [][ StaysMounted =>
              /\ ~analyticsLoading => ~analyticsLoading'
              /\ timeRange' # timeRange =>
                    /\ analyticsData # Null
                    /\ analyticsData' = analyticsData
                    /\ ~analyticsLoading'
              /\ analyticsData' # analyticsData =>
                    /\ Len(aDone') = Len(aDone) + 1
                    /\ aDone'[Len(aDone')].ok ]_vars

\* The window was changed to 7 days and its fetch is in flight: the loading
\* flag is off and the analytics computed for 30 days are still displayed.
Wit_C27_EarlierResultDisplayed ==
    /\ ~analyticsLoading
    /\ analyticsData # Null
    /\ timeRange = <<"7">>
    /\ aLast.timeRange = <<"3", "0">>
    /\ analyticsData.totalCaptures = 2
    /\ \E f \in aFetches : f.timeRange = <<"7">>

(***************************************************************************)
(* Properties of the listing's delete, stated over the log lCalls.         *)
(***************************************************************************)
ListIdx(op) == {i \in 1..Len(lCalls) : lCalls[i].op = op}

\* The fetches issued by handleDelete: each is logged right after the success
\* of its delete.
Refetches == {j \in ListIdx("fetch") : j > 1 /\ lCalls[j - 1].op = "deleted"}

\* C12: once a confirmed delete of id has succeeded, no row of the store has
\* that id; the rows with which the fetch issued after it is answered do not
\* contain the id, and neither does the listing when that fetch completes.
Thm_C12_DeletedAbsentAfterRefetch ==
    /\ \A i \in ListIdx("deleted") : lCalls[i].id \notin Ids(db)
    /\ \A j \in Refetches :
          /\ \A r \in lReqs :
                (r.op = "fetch" /\ r.id = lCalls[j].req /\ r.phase = "answered") =>
                    lCalls[j - 1].id \notin Ids(r.data)
          /\ (/\ lCalls[Len(lCalls)].op = "fetched"
              /\ lCalls[Len(lCalls)].req = lCalls[j].req) =>
                    lCalls[j - 1].id \notin Ids(captures)

\* The fetch after the delete of one of three rows has completed: the listing
\* holds the two other rows.
Wit_C12_RefetchedWithoutDeleted ==
    /\ Refetches # {}
    /\ lCalls[Len(lCalls)].op = "fetched"
    /\ \E j \in Refetches :
          /\ lCalls[Len(lCalls)].req = lCalls[j].req
          /\ lCalls[j - 1].id = 2
    /\ Ids(captures) = {1, 3}

\* The step in which confirm() is declined for the row id.
Declined(id) == lCalls' = Append(lCalls, [op |-> "confirm", id |-> id, answer |-> FALSE])

\* C13: a delete call is issued only right after confirm() returned true for
\* the same id, and rows leave the store only by such a call; the success of a
\* delete is followed at once by the issue of a fetch, which the mounted
\* listing awaits; a declined confirmation issues nothing and leaves the
\* listing, its requests and the store as they were.
Thm_C13_DeleteOnlyConfirmed ==
    /\ [](\A j \in ListIdx("delete") :
              /\ j > 1
              /\ lCalls[j - 1].op = "confirm"
              /\ lCalls[j - 1].id = lCalls[j].id
              /\ lCalls[j - 1].answer)
    /\ [](\A i \in ListIdx("deleted") :
              /\ i < Len(lCalls)
              /\ lCalls[i + 1].op = "fetch"
              /\ \E j \in ListIdx("delete") : j < i /\ lCalls[j].req = lCalls[i].req)
    /\ [][ /\ \A id \in Ids(captures) :
                Declined(id) =>
                    /\ UNCHANGED <<db, captures, listLoading, searchTerm, statusFilter,
                                   selectedCapture, lReqs, lIssued>>
           /\ \A r \in lReqs :
                (r.op = "delete" /\ r.live /\ r \notin lReqs'
                 /\ Len(lCalls') > Len(lCalls) /\ lCalls'[Len(lCalls) + 1].op = "deleted") =>
                    \E q \in lReqs' \ lReqs :
                        q.op = "fetch" /\ q.phase = "sent" /\ q.id = lIssued + 1
           /\ Ids(db') # Ids(db) =>
                \E r \in lReqs :
                    /\ r.op = "delete"
                    /\ Ids(db') = Ids(db) \ {r.target}
                    /\ \E j \in ListIdx("delete") : lCalls[j].req = r.id ]_vars

\* The confirmation was declined for a row of the loaded listing.
Wit_C13_Declined ==
    /\ ListIdx("confirm") # {}
    /\ lCalls[Len(lCalls)].op = "confirm"
    /\ ~lCalls[Len(lCalls)].answer
    /\ Len(captures) = 3
    /\ captures = db
    /\ lReqs = {}

(***************************************************************************)
(* Properties of failures in the fetching views and of the records' status. *)
(***************************************************************************)
\* The step in which a fetch or a delete of the listing ends with an error.
ListFails ==
    /\ Len(lCalls') = Len(lCalls) + 1
    /\ lCalls'[Len(lCalls')].op \in {"fetchFailed", "deleteFailed"}

\* The step in which a fetch of the aggregation view ends with an error.
AnalyticsFails ==
    /\ Len(aDone') = Len(aDone) + 1
    /\ ~aDone'[Len(aDone')].ok

\* C14: a step in which a fetch or delete of the listing, or a fetch of the
\* aggregation view, fails leaves the fetched records, both filters, the
\* selected record, the window and the computed analytics as they were, and
\* ends that one request only: the other requests in flight stay as they are.
Thm_C14_FailureLeavesState ==
    [][ (ListFails \/ AnalyticsFails) =>
            /\ UNCHANGED <<captures, searchTerm, statusFilter, selectedCapture,
                           timeRange, analyticsData, aLast>>
            /\ lReqs' \subseteq lReqs
            /\ aFetches' \subseteq aFetches
            /\ Cardinality(lReqs \ lReqs') + Cardinality(aFetches \ aFetches') = 1 ]_vars

\* The fetch issued after a delete failed: the listing still shows the three
\* rows it had, with its filter and its selected record.
Wit_C14_RefetchFailed ==
    /\ ListIdx("deleted") # {}
    /\ lCalls[Len(lCalls)].op = "fetchFailed"
    /\ Len(captures) = 3
    /\ Len(db) = 2
    /\ statusFilter = "draft"
    /\ selectedCapture # Null

\* Rows of a sequence that a submission of the form created.
Created(rows) ==
    {i \in 1..Len(rows) : \E j \in CallIdx("inserted") : calls[j].id = rows[i].id}

\* C16: every row created by the form has status "draft" in the store and in
\* every copy the listing and the aggregation view hold of it, and no step
\* changes the status of a row that stays in the store.
Thm_C16_OnlyDraftWritten ==
    /\ [](/\ \A i \in Created(db) : db[i].status = "draft"
          /\ \A i \in Created(captures) : captures[i].status = "draft"
          /\ \A r \in lReqs : r.op = "fetch" =>
                \A i \in Created(r.data) : r.data[i].status = "draft"
          /\ \A f \in aFetches : \A i \in Created(f.data) : f.data[i].status = "draft"
          /\ \A i \in CallIdx("insert") : calls[i].record.status = "draft")
    /\ [][ \A i \in 1..Len(db) : \A j \in 1..Len(db') :
                db[i].id = db'[j].id => db[i].status = db'[j].status ]_vars

\* A row the form created has been fetched by the listing, a row was deleted
\* there, and the aggregation view has computed over the created row.
Wit_C16_CreatedListedAggregated ==
    /\ currentView = "analytics"
    /\ analyticsData # Null
    /\ ListIdx("deleted") # {}
    /\ Created(aLast.data) # {}
    /\ analyticsData.capturesByStatus = << <<"draft", 1>> >>

(***************************************************************************)
(* C29.  The Dashboard is rendered exactly when the session is not loading *)
(* and a user is present; while the session is loading the spinner is      *)
(* rendered, and once it is not loading, with no user, the authentication  *)
(* form is rendered.  While the Dashboard is not rendered none of its      *)
(* views is mounted: no view is active, the aggregation view and the       *)
(* listing hold nothing and have no fetch in flight, and the form is       *)
(* blank.                                                                  *)
(***************************************************************************)
NoViewMounted ==
    /\ currentView = "dashboard"
    /\ aFetches = {} /\ analyticsData = Null /\ analyticsLoading
    /\ captures = <<>> /\ listLoading /\ \A r \in lReqs : r.op # "fetch"
    /\ formData = InitialFormData /\ ~formLoading /\ ~success

Thm_C29_DashboardOnlyForUser ==
    /\ (Rendered = "Dashboard") <=> (~session.loading /\ session.user # NoUser)
    /\ session.loading => Rendered = "LoadingSpinner"
    /\ (~session.loading /\ session.user = NoUser) => Rendered = "AuthForm"
    /\ Rendered # "Dashboard" => NoViewMounted

\* The listing and the aggregation view have both been mounted, and the user
\* is gone: the authentication form has replaced the Dashboard.
Wit_C29_SignedOutAfterViews ==
    /\ Rendered = "AuthForm"
    /\ lIssued > 0
    /\ aIssued > 0

====
